---- MODULE Spec2Model ----
(***************************************************************************)
(* A model of the mutual-influence experiment harness:                     *)
(*   run_grid_parallel.py  the resumable, time-budgeted sweep runner       *)
(*   run_grid.py           one_pass, the two-round orchestration           *)
(*   mutual_influence_agents.py  MutualInfluenceAssistant (trust, call)    *)
(*   metrics.py            the JSON helpers used on the agents' texts      *)
(*                                                                         *)
(* Numbers: beta, k, tau and alpha are kept in tenths (0.2 is 2, 3.0 is    *)
(* 30); trust scores, mu and temperatures are kept in units of 1/SCALE.    *)
(* A CSV cell is the sequence of its characters; a CSV line is the         *)
(* sequence of its cells.  A text returned by the generation service is    *)
(* kept as what json.loads makes of it (see Text below).                   *)
(***************************************************************************)
EXTENDS Integers, Sequences, FiniteSets, TLC

VARIABLES
    run,            \* number of the sweep process (1 = first run of main)
    mainpc,         \* where main() is: "init", "loop", "await", "done", "crashed"
    tasks,          \* build_tasks(): the shuffled grid
    done,           \* read_done_keys(OUT_CSV)
    todo,           \* tasks filtered against done
    idx,            \* number of loop iterations of main begun
    completed,      \* main's counter of run_one calls that returned
    start,          \* time.time() at sweep start
    now,            \* time.time()
    sem,            \* asyncio.Semaphore(MAX_CONCURRENCY): free permits
    writer_lock,    \* asyncio.Lock(): TRUE when held
    fileExists,     \* os.path.exists(OUT_CSV)
    csv,            \* the lines of OUT_CSV
    procs,          \* the run_one coroutines of this run, with their one_pass frame
    written,        \* history: the parameter tuple of every data row appended, in order
    writtenAtStart, \* history: Len(written) when this run read the store
    failedPrev,     \* history: the tuples whose pass raised in the previous run
    failedNow,      \* history: the tuples whose pass raised in this run
    budgetStop      \* history: this run left its loop by the time-budget break

vars == <<run, mainpc, tasks, done, todo, idx, completed, start, now, sem,
          writer_lock, fileExists, csv, procs, written, writtenAtStart,
          failedPrev, failedNow, budgetStop>>

sweepVars == <<run, mainpc, tasks, done, todo, idx, completed, start, sem,
               writer_lock, fileExists, csv, written, writtenAtStart,
               failedPrev, failedNow, budgetStop>>

----------------------------------------------------------------------------
(* Bounds of the model *)

NumSeeds == 3       \* SEEDS is 1..NumSeeds
MaxRuns == 2        \* sweep processes run one after another on the same store
MaxClock == 1800    \* the clock stops advancing here (seconds)

(* Program constants *)

MAX_CONCURRENCY == 4
TIME_BUDGET_S == 20 * 60
RESUME_ENABLED == TRUE
SHUFFLE_TASKS == TRUE
SCALE == 100 * 100

GRID == [beta |-> <<2>>, k |-> <<30>>, tau |-> <<3>>, alpha |-> <<4>>]
SEEDS == [s \in 1..NumSeeds |-> s]
ADVERSARIAL == <<FALSE, TRUE>>

\* how long one request to the generation service may take (seconds)
Latency == {0, 600}

Min(a, b) == IF a < b THEN a ELSE b
Max(a, b) == IF a > b THEN a ELSE b
Range(s) == {s[j] : j \in DOMAIN s}

----------------------------------------------------------------------------
(* CSV cells: csv.DictWriter formats with str(), read_done_keys parses with *)
(* float(), int() and bool(int()).                                          *)

DigitChars == <<"0", "1", "2", "3", "4", "5", "6", "7", "8", "9">>

IsDigit(c) == \E d \in 1..10 : DigitChars[d] = c

DigitVal(c) == (CHOOSE d \in 1..10 : DigitChars[d] = c) - 1

RECURSIVE FormatInt(_)
\* str(n) of a non-negative int
FormatInt(n) ==
    IF n < 10 THEN <<DigitChars[n + 1]>>
    ELSE FormatInt(n \div 10) \o <<DigitChars[(n % 10) + 1]>>

\* str(x) of the float x = v/10, v >= 0: "0.2", "3.0"
FormatFloat(v) == FormatInt(v \div 10) \o <<".">> \o <<DigitChars[(v % 10) + 1]>>

\* the cell of a bool written as it is: str(True) is "True"
FormatBoolAsStr(b) ==
    IF b THEN <<"T", "r", "u", "e">> ELSE <<"F", "a", "l", "s", "e">>

\* the cell of a bool written as int(adversarial)
FormatBool(b) == FormatInt(IF b THEN 1 ELSE 0)

RECURSIVE DigitsValue(_)
DigitsValue(cell) ==
    IF cell = <<>> THEN 0
    ELSE 10 * DigitsValue(SubSeq(cell, 1, Len(cell) - 1)) + DigitVal(cell[Len(cell)])

AllDigits(cell) == \A j \in DOMAIN cell : IsDigit(cell[j])

\* int(cell): a non-empty run of digits, anything else raises
ParseInt(cell) ==
    IF cell # <<>> /\ AllDigits(cell)
    THEN [ok |-> TRUE, val |-> DigitsValue(cell)]
    ELSE [ok |-> FALSE, val |-> 0]

\* float(cell), in tenths: digits, then optionally "." and at most one digit
\* (a finer fraction is not a value of this model and is taken as unreadable)
ParseFloat(cell) ==
    LET dots == {j \in DOMAIN cell : cell[j] = "."}
    IN  IF dots = {}
        THEN [ok |-> ParseInt(cell).ok, val |-> 10 * ParseInt(cell).val]
        ELSE LET d == CHOOSE j \in dots : TRUE
                 ip == SubSeq(cell, 1, d - 1)
                 fp == SubSeq(cell, d + 1, Len(cell))
             IN  IF Cardinality(dots) = 1 /\ AllDigits(ip) /\ AllDigits(fp)
                    /\ Len(ip) + Len(fp) > 0 /\ Len(fp) <= 1
                 THEN [ok |-> TRUE, val |-> 10 * DigitsValue(ip) + DigitsValue(fp)]
                 ELSE [ok |-> FALSE, val |-> 0]

\* a frequent slip: bool(cell) is the truth of the string, True for "0" too
ParseBoolOfString(cell) == [ok |-> TRUE, val |-> cell # <<>>]

\* bool(int(cell))
ParseBool(cell) == [ok |-> ParseInt(cell).ok, val |-> ParseInt(cell).val # 0]

\* the key columns of FIELDNAMES; the twelve metric columns that follow them
\* in the file are never read back and are left out of the lines
FIELDNAMES == <<
    <<"b", "e", "t", "a">>,
    <<"k">>,
    <<"t", "a", "u">>,
    <<"a", "l", "p", "h", "a">>,
    <<"s", "e", "e", "d">>,
    <<"a", "d", "v", "e", "r", "s", "a", "r", "i", "a", "l">> >>

\* w.writerow(short): the line of a pass's record
FormatRow(out) ==
    << FormatFloat(out.beta), FormatFloat(out.k), FormatFloat(out.tau),
       FormatFloat(out.alpha), FormatInt(out.seed), FormatBool(out.adversarial) >>

\* csv.DictReader: row[name], by the position of name in the first line
\* (the last such position); KeyError or a short line give ok = FALSE
RowGet(header, line, name) ==
    LET at == {j \in DOMAIN header : header[j] = name /\ j <= Len(line)}
    IN  IF at = {} THEN [ok |-> FALSE, cell |-> <<>>]
        ELSE [ok |-> TRUE, cell |-> line[CHOOSE j \in at : \A m \in at : m <= j]]

\* the key of one row of the file, or ok = FALSE where the code's try fails
RowKey(header, line) ==
    LET b == RowGet(header, line, FIELDNAMES[1])
        k == RowGet(header, line, FIELDNAMES[2])
        t == RowGet(header, line, FIELDNAMES[3])
        a == RowGet(header, line, FIELDNAMES[4])
        s == RowGet(header, line, FIELDNAMES[5])
        v == RowGet(header, line, FIELDNAMES[6])
    IN  IF /\ b.ok /\ k.ok /\ t.ok /\ a.ok /\ s.ok /\ v.ok
           /\ ParseFloat(b.cell).ok /\ ParseFloat(k.cell).ok
           /\ ParseFloat(t.cell).ok /\ ParseFloat(a.cell).ok
           /\ ParseInt(s.cell).ok /\ ParseBool(v.cell).ok
        THEN [ok |-> TRUE,
              key |-> << ParseFloat(b.cell).val, ParseFloat(k.cell).val,
                         ParseFloat(t.cell).val, ParseFloat(a.cell).val,
                         ParseInt(s.cell).val, ParseBool(v.cell).val >>]
        ELSE [ok |-> FALSE, key |-> <<>>]

\* read_done_keys(path)
read_done_keys(exists, lines) ==
    IF ~RESUME_ENABLED \/ ~exists \/ lines = <<>> THEN {}
    ELSE {RowKey(lines[1], lines[j]).key :
            j \in {m \in 2..Len(lines) : RowKey(lines[1], lines[m]).ok}}

\* the header written at every start, whatever the file holds
ensure_header_unconditional(exists, lines) ==
    IF ~exists THEN <<FIELDNAMES>> ELSE Append(lines, FIELDNAMES)

\* ensure_header(path, fieldnames): the file after the call
ensure_header(exists, lines) ==
    IF ~exists \/ lines = <<>> THEN <<FIELDNAMES>> ELSE lines

----------------------------------------------------------------------------
(* Texts.  A text of the generation service is kept as json.loads sees it:  *)
(* parse is "invalid" (json.loads raises), "array" (valid JSON, no object)  *)
(* or "object"; for an object, which of the keys "features", "decision" and *)
(* "steps" it has and what "features" and "decision" hold.                  *)

Text(parse, featuresKind, features, decisionKind, decision, steps) ==
    [parse |-> parse, featuresKind |-> featuresKind, features |-> features,
     decisionKind |-> decisionKind, decision |-> decision, steps |-> steps]

NoText == Text("unset", "missing", <<>>, "missing", <<>>, FALSE)
TxtInvalid == Text("invalid", "missing", <<>>, "missing", <<>>, FALSE)
TxtArray == Text("array", "missing", <<>>, "missing", <<>>, FALSE)
TxtEmptyObject == Text("object", "missing", <<>>, "missing", <<>>, FALSE)
\* {"features": ["iat", "rate"], "steps": [...]}
TxtPlan == Text("object", "list", << <<"i", "a", "t">>, <<"r", "a", "t", "e">> >>, "missing", <<>>, TRUE)
\* {"features": [" IAT", "dns"]}
TxtFeatures == Text("object", "list", << <<" ", "I", "A", "T">>, <<"d", "n", "s">> >>, "missing", <<>>, FALSE)
\* {"decision": "APPROVE"}
TxtApprove == Text("object", "missing", <<>>, "string", <<"A", "P", "P", "R", "O", "V", "E">>, FALSE)
\* {"decision": " approve "}
TxtApproveLoose == Text("object", "missing", <<>>, "string", <<" ", "a", "p", "p", "r", "o", "v", "e", " ">>, FALSE)
\* {"decision": "REVISE"}
TxtRevise == Text("object", "missing", <<>>, "string", <<"R", "E", "V", "I", "S", "E">>, FALSE)
\* {"decision": "OK"}
TxtOtherDecision == Text("object", "missing", <<>>, "string", <<"O", "K">>, FALSE)
\* {"decision": 1}
TxtNumberDecision == Text("object", "missing", <<>>, "number", <<"1">>, FALSE)

\* {"features": "iat"}
TxtFeaturesString == Text("object", "string", <<"i", "a", "t">>, "missing", <<>>, FALSE)
\* {"features": [" ", "dns"]}
TxtFeaturesBlank == Text("object", "list", << <<" ">>, <<"d", "n", "s">> >>, "missing", <<>>, FALSE)

Agents == {"planner", "researcher", "critic"}

\* what the service may answer to each agent: in a sweep, the answer asked for
RepliesSweep ==
    [a \in Agents |->
        IF a = "planner" THEN {TxtPlan}
        ELSE IF a = "researcher" THEN {TxtFeatures} ELSE {TxtApprove}]

\* what the service may answer to each agent: anything, well-formed or not
RepliesAny ==
    [a \in Agents |->
        {TxtInvalid, TxtEmptyObject}
            \cup (IF a = "planner" THEN {TxtPlan}
                  ELSE IF a = "researcher" THEN {TxtFeatures}
                  ELSE {TxtApprove, TxtApproveLoose, TxtRevise, TxtOtherDecision,
                        TxtNumberDecision})]

\* isinstance(safe_json_loads(s), dict)
IsDict(t) == t.parse = "object"

\* k in d, for a dict d
HasKey(t, key) ==
    \/ key = "features" /\ t.featuresKind # "missing"
    \/ key = "decision" /\ t.decisionKind # "missing"
    \/ key = "steps" /\ t.steps

\* call(): the required keys the response lacks
MissingKeys(require_keys, t) ==
    {key \in require_keys : ~(IsDict(t) /\ HasKey(t, key))}

UpperChars == <<"A", "B", "C", "D", "E", "F", "G", "H", "I", "J", "K", "L", "M",
               "N", "O", "P", "Q", "R", "S", "T", "U", "V", "W", "X", "Y", "Z">>
LowerChars == <<"a", "b", "c", "d", "e", "f", "g", "h", "i", "j", "k", "l", "m",
               "n", "o", "p", "q", "r", "s", "t", "u", "v", "w", "x", "y", "z">>

\* str.lower() and str.upper(), one character
Lower(c) ==
    IF \E i \in DOMAIN UpperChars : UpperChars[i] = c
    THEN LowerChars[CHOOSE i \in DOMAIN UpperChars : UpperChars[i] = c] ELSE c
Upper(c) ==
    IF \E i \in DOMAIN LowerChars : LowerChars[i] = c
    THEN UpperChars[CHOOSE i \in DOMAIN LowerChars : LowerChars[i] = c] ELSE c

RECURSIVE NormChars(_)
\* " ".join(s.lower().split()): lower-case, trim, collapse runs of blanks
NormChars(s) ==
    IF s = <<>> THEN <<>>
    ELSE IF s[1] = " " THEN NormChars(Tail(s))
    ELSE <<Lower(s[1])>> \o
         (IF Tail(s) # <<>> /\ Tail(s)[1] = " " /\
             \E j \in DOMAIN Tail(s) : Tail(s)[j] # " "
          THEN <<" ">> ELSE <<>>) \o NormChars(Tail(s))

norm(x) == NormChars(x)

\* a slip: "features" is not tested for being a list, a string is iterated
\* character by character
extract_features_unchecked(t) ==
    IF ~IsDict(t) THEN {}
    ELSE IF t.featuresKind = "string"
    THEN {norm(<<t.features[j]>>) : j \in DOMAIN t.features}
    ELSE IF t.featuresKind # "list" THEN {}
    ELSE {norm(t.features[j]) :
            j \in {m \in DOMAIN t.features : norm(t.features[m]) # <<>>}}

\* extract_features_from_json(s)
extract_features_from_json(t) ==
    IF ~IsDict(t) THEN {}
    ELSE IF t.featuresKind # "list" THEN {}
    ELSE {norm(t.features[j]) :
            j \in {m \in DOMAIN t.features : norm(t.features[m]) # <<>>}}

APPROVE_CHARS == <<"A", "P", "P", "R", "O", "V", "E">>
REVISE_CHARS == <<"R", "E", "V", "I", "S", "E">>

\* an Optional[float] or Optional[int]: None, or a value
None == [none |-> TRUE, value |-> 0]
Some(v) == [none |-> FALSE, value |-> v]

RECURSIVE LStrip(_)
LStrip(s) == IF s # <<>> /\ s[1] = " " THEN LStrip(Tail(s)) ELSE s

RECURSIVE RStrip(_)
RStrip(s) ==
    IF s # <<>> /\ s[Len(s)] = " " THEN RStrip(SubSeq(s, 1, Len(s) - 1)) ELSE s

\* str.strip() and str.upper()
strip(s) == RStrip(LStrip(s))
upper(s) == [i \in DOMAIN s |-> Upper(s[i])]
lower(s) == [i \in DOMAIN s |-> Lower(s[i])]

\* critic_decision_from_json(s): "APPROVE", "REVISE" or "None"
critic_decision_from_json(t) ==
    IF ~IsDict(t) THEN "None"
    ELSE IF t.decisionKind # "string" THEN "None"
    ELSE LET dec == upper(strip(t.decision))
         IN  IF dec = APPROVE_CHARS THEN "APPROVE"
             ELSE IF dec = REVISE_CHARS THEN "REVISE"
             ELSE "None"

\* a slip: a round that is not approved counts 0 rounds
rounds_to_approval_zero(dec) == IF dec = "APPROVE" THEN Some(1) ELSE Some(0)

\* 1 if dec == "APPROVE" else None
rounds_to_approval(dec) == IF dec = "APPROVE" THEN Some(1) ELSE None

\* a slip: the test for two empty sets is on one of them only
jaccard_one_empty(a, b) ==
    IF a = {} THEN None
    ELSE Some((2 * SCALE * Cardinality(a \cap b) + Cardinality(a \cup b))
                \div (2 * Cardinality(a \cup b)))

\* jaccard(a, b), the quotient to the nearest 1/SCALE
jaccard(a, b) ==
    IF a = {} /\ b = {} THEN None
    ELSE LET denom == Cardinality(a \cup b)
         IN  IF denom = 0 THEN Some(0)
             ELSE Some((2 * SCALE * Cardinality(a \cap b) + denom) \div (2 * denom))

_CANON_TAGS ==
    {<<"d", "u", "r", "a", "t", "i", "o", "n">>,
     <<"b", "y", "t", "e", "s">>,
     <<"p", "a", "c", "k", "e", "t", "s">>,
     <<"s", "r", "c", "_", "i", "p">>,
     <<"d", "s", "t", "_", "i", "p">>,
     <<"s", "r", "c", "_", "p", "o", "r", "t">>,
     <<"d", "s", "t", "_", "p", "o", "r", "t">>,
     <<"p", "r", "o", "t", "o", "c", "o", "l">>,
     <<"f", "l", "a", "g", "s">>,
     <<"e", "n", "t", "r", "o", "p", "y">>,
     <<"d", "n", "s">>,
     <<"h", "t", "t", "p">>,
     <<"t", "l", "s">>,
     <<"j", "a", "3">>,
     <<"u", "s", "e", "r", "_", "a", "g", "e", "n", "t">>,
     <<"f", "l", "o", "w", "_", "c", "o", "u", "n", "t">>,
     <<"r", "a", "t", "e">>,
     <<"i", "a", "t">>,
     <<"w", "i", "n", "d", "o", "w">>,
     <<"p", "a", "y", "l", "o", "a", "d", "_", "l", "e", "n">>}

\* [a-z0-9_]
IsTagChar(c) ==
    \/ \E i \in DOMAIN LowerChars : LowerChars[i] = c
    \/ IsDigit(c)
    \/ c = "_"

RECURSIVE FindAll(_, _)
\* set(re.findall(r"[a-z0-9_]+", t)): the maximal runs, cur being the run read
FindAll(t, cur) ==
    IF t = <<>> THEN (IF cur = <<>> THEN {} ELSE {cur})
    ELSE IF IsTagChar(t[1]) THEN FindAll(Tail(t), Append(cur, t[1]))
    ELSE (IF cur = <<>> THEN {} ELSE {cur}) \cup FindAll(Tail(t), <<>>)

\* to_tags(t) of canonical_overlap
to_tags(t) == {tok \in FindAll(lower(t), <<>>) : tok \in _CANON_TAGS}

\* a slip: the tokens are not filtered against the vocabulary
canonical_overlap_unfiltered(text_a, text_b) ==
    jaccard(FindAll(lower(text_a), <<>>), FindAll(lower(text_b), <<>>))

\* canonical_overlap(text_a, text_b)
canonical_overlap(text_a, text_b) ==
    LET A == to_tags(text_a)
        B == to_tags(text_b)
    IN  IF A = {} /\ B = {} THEN None
        ELSE LET denom == Cardinality(A \cup B)
             IN  IF denom = 0 THEN Some(0)
                 ELSE Some((2 * SCALE * Cardinality(A \cap B) + denom) \div (2 * denom))

RECURSIVE JoinWith(_, _)
\* sep.join(parts)
JoinWith(parts, sep) ==
    IF parts = <<>> THEN <<>>
    ELSE IF Len(parts) = 1 THEN parts[1]
    ELSE parts[1] \o sep \o JoinWith(Tail(parts), sep)

Quoted(x) == <<"\"">> \o x \o <<"\"">>

\* the text the service sent, of which the fields of Text are what json.loads
\* makes: prose for a text that is no JSON, else the JSON text
Raw(t) ==
    CASE t.parse = "unset" -> <<>>
      [] t.parse = "invalid" -> <<"A", "P", "P", "R", "O", "V", "E", " ", "i", "a", "t">>
      [] t.parse = "array" -> <<"[", "]">>
      [] OTHER ->
            <<"{">> \o
            JoinWith(
                (IF t.featuresKind = "list"
                 THEN << <<"\"", "f", "e", "a", "t", "u", "r", "e", "s", "\"", ":", "[">> \o
                         JoinWith([j \in DOMAIN t.features |-> Quoted(t.features[j])],
                                  <<",">>) \o <<"]">> >>
                 ELSE IF t.featuresKind = "string"
                 THEN << <<"\"", "f", "e", "a", "t", "u", "r", "e", "s", "\"", ":">> \o Quoted(t.features) >>
                 ELSE <<>>) \o
                (IF t.decisionKind = "string"
                 THEN << <<"\"", "d", "e", "c", "i", "s", "i", "o", "n", "\"", ":">> \o Quoted(t.decision) >>
                 ELSE IF t.decisionKind = "number"
                 THEN << <<"\"", "d", "e", "c", "i", "s", "i", "o", "n", "\"", ":">> \o t.decision >>
                 ELSE <<>>) \o
                (IF t.steps THEN << <<"\"", "s", "t", "e", "p", "s", "\"", ":", "[", "]">> >> ELSE <<>>),
                <<",">>) \o
            <<"}">>

----------------------------------------------------------------------------
(* MutualInfluenceAssistant: trust and temperature, in units of 1/SCALE *)

PRIOR == SCALE \div 2
T0_DEFAULT == (7 * SCALE) \div 10
BASE_TEMP == (2 * SCALE) \div 10

Score(hundredths) == hundredths * (SCALE \div 100)

RECURSIVE SumOver(_, _)
SumOver(f, S) ==
    IF S = {} THEN 0
    ELSE LET x == CHOOSE y \in S : TRUE IN f[x] + SumOver(f, S \ {x})

\* the mu property
mu(peer_scores) ==
    IF DOMAIN peer_scores = {} THEN 0
    ELSE SumOver(peer_scores, DOMAIN peer_scores) \div Cardinality(DOMAIN peer_scores)

\* a slip: the weights of the old value and of the score are exchanged
receive_feedback_swapped(peer_scores, from_peer, score, beta) ==
    LET old == IF from_peer \in DOMAIN peer_scores THEN peer_scores[from_peer] ELSE PRIOR
        sc == Max(0, Min(SCALE, score))
        new == (beta * old + (10 - beta) * sc) \div 10
    IN  [p \in DOMAIN peer_scores \cup {from_peer} |->
            IF p = from_peer THEN new ELSE peer_scores[p]]

\* receive_feedback(from_peer, score, beta), beta in tenths: the new peer_scores
receive_feedback(peer_scores, from_peer, score, beta) ==
    LET old == IF from_peer \in DOMAIN peer_scores THEN peer_scores[from_peer] ELSE PRIOR
        sc == Max(0, Min(SCALE, score))
        new == ((10 - beta) * old + beta * sc) \div 10
    IN  [p \in DOMAIN peer_scores \cup {from_peer} |->
            IF p = from_peer THEN new ELSE peer_scores[p]]

\* temperature_from_mu: the division T0 / (1.0 + alpha * max(0.0, mu)) raises
\* ZeroDivisionError
temperature_raises(m, alpha) == 10 * SCALE + alpha * Max(0, m) = 0

\* temperature_from_mu(mu, T0, alpha), alpha in tenths, where it returns
temperature_from_mu(m, T0, alpha) ==
    LET T == (T0 * 10 * SCALE) \div (10 * SCALE + alpha * Max(0, m))
    IN  Max(SCALE \div 10, Min((15 * SCALE) \div 10, T))

\* math.exp in thousandths, for an argument x >= 0 in units of 1/SCALE:
\* e to the integer part, times the series of the fractional part
RECURSIVE ExpSeries(_, _, _)
ExpSeries(f, term, i) ==
    IF term = 0 \/ i > 8 THEN 0
    ELSE term + ExpSeries(f, (term * f) \div (SCALE * i), i + 1)

RECURSIVE ExpWhole(_)
ExpWhole(n) == IF n = 0 THEN 1000 ELSE (ExpWhole(n - 1) * 2718) \div 1000

ExpNonNeg(x) == (ExpWhole(x \div SCALE) * ExpSeries(x % SCALE, 1000, 1)) \div 1000

\* math.exp(x) in thousandths, x in units of 1/SCALE
exp(x) == IF x >= 0 THEN ExpNonNeg(x) ELSE (1000 * 1000) \div ExpNonNeg(0 - x)

\* a slip: the midpoint tau is left out of the exponent
lambda_from_mu_no_midpoint(m, k, tau) ==
    (SCALE * 1000) \div (1000 + exp(((0 - k) * m) \div 10))

\* lambda_from_mu(mu, k, tau), k in tenths
lambda_from_mu(m, k, tau) ==
    (SCALE * 1000) \div (1000 + exp(((0 - k) * (m - tau)) \div 10))

NoPrefix == [on |-> FALSE, mu |-> 0, lam |-> 0, temp |-> 0]

\* prompts(seed)[name], with what one_pass adds to it: the two embedded
\* outputs of a critic prompt, the constraint of the influenced planner prompt
Prompt(name, seed, planner, researcher, constraint) ==
    [name |-> name, seed |-> seed, planner |-> planner, researcher |-> researcher,
     constrained |-> FALSE, constraint |-> constraint, prefix |-> NoPrefix,
     repair |-> FALSE]

NoCall ==
    [agent |-> "", influenced |-> FALSE, require_keys |-> {}, temperature |-> 0,
     task |-> Prompt("", 0, NoText, NoText, {}), stage |-> "none"]

\* one request to the service: self.run(task) with the client just built
Request(agent, task, temperature) ==
    [agent |-> agent, task |-> task, temperature |-> temperature]

\* a slip: the temperature computed from mu is not used for the request
CallIssueBaseTemp(f, agent, task, influenced, base_temp, require_keys) ==
    LET mu_val == mu(f.scores[agent])
        lam == lambda_from_mu(mu_val, f.params[2], (f.params[3] * SCALE) \div 10)
        temp == temperature_from_mu(mu_val, T0_DEFAULT, f.params[4])
        task2 == IF influenced
                 THEN [task EXCEPT !.prefix = [on |-> TRUE, mu |-> mu_val,
                                               lam |-> lam, temp |-> temp]]
                 ELSE task
    IN  [f EXCEPT
            !.call = [agent |-> agent, influenced |-> influenced,
                      require_keys |-> require_keys, temperature |-> base_temp,
                      task |-> task2, stage |-> "first"],
            !.reqs = Append(@, Request(agent, task2, base_temp))]

\* call(task, influenced, base_temp, require_keys) up to its first await:
\* the frame with the request issued
CallIssue(f, agent, task, influenced, base_temp, require_keys) ==
    LET mu_val == mu(f.scores[agent])
        lam == lambda_from_mu(mu_val, f.params[2], (f.params[3] * SCALE) \div 10)
        temp == temperature_from_mu(mu_val, T0_DEFAULT, f.params[4])
        task2 == IF influenced
                 THEN [task EXCEPT !.prefix = [on |-> TRUE, mu |-> mu_val,
                                               lam |-> lam, temp |-> temp]]
                 ELSE task
        temperature == IF influenced THEN temp ELSE base_temp
    IN  IF influenced /\ temperature_raises(mu_val, f.params[4])
        THEN [f EXCEPT !.pc = "raised", !.call.stage = "done"]
        ELSE
        [f EXCEPT
            !.call = [agent |-> agent, influenced |-> influenced,
                      require_keys |-> require_keys, temperature |-> temperature,
                      task |-> task2, stage |-> "first"],
            !.reqs = Append(@, Request(agent, task2, temperature))]

----------------------------------------------------------------------------
(* one_pass: the frame of one pass.  pc is the await the pass is suspended  *)
(* at ("p1", "r1", "c1", "p2", "r2", "c2": the call of that agent and       *)
(* round), or the code it runs next ("feedback", "metrics"), or how it      *)
(* ended ("returned", "raised").                                            *)

NoOut ==
    [set |-> FALSE, beta |-> 0, k |-> 0, tau |-> 0, alpha |-> 0, seed |-> 0,
     adversarial |-> FALSE, mu_planner |-> 0, mu_researcher |-> 0, mu_critic |-> 0,
     RoundsToApproval_baseline |-> None, RoundsToApproval_influence |-> None,
     AgreementRate_baseline |-> None, AgreementRate_influence |-> None,
     RevisionDepth_between_rounds |-> 0,
     PlannerResearcher_Canonical_baseline |-> None,
     PlannerResearcher_Canonical_influence |-> None,
     Planner_SelfAgreement |-> None, Researcher_SelfAgreement |-> None,
     planner_baseline |-> NoText, researcher_baseline |-> NoText,
     critic_baseline |-> NoText, planner_influence |-> NoText,
     researcher_influence |-> NoText, critic_influence |-> NoText]

\* the three agents as constructed: no peer score yet
NewFrame(params, rpc) ==
    [params |-> params, rpc |-> rpc, pc |-> "new",
     p1 |-> NoText, r1 |-> NoText, c1 |-> NoText,
     p2 |-> NoText, r2 |-> NoText, c2 |-> NoText,
     scores |-> [a \in Agents |-> <<>>],
     call |-> NoCall, reqs |-> <<>>, replies |-> <<>>,
     out |-> NoOut, ret |-> NoText]

\* run_one has returned: its frame and that of its pass are gone; what is
\* kept is how it ended ("saved" or "error")
Finished(f, how) == NewFrame(f.params, how)

\* one_pass up to its first await: the baseline planner call is issued
one_pass_start(params, rpc) ==
    CallIssue([NewFrame(params, rpc) EXCEPT !.pc = "p1"], "planner",
              Prompt("planner_baseline", params[5], NoText, NoText, {}),
              FALSE, BASE_TEMP, {})

\* a misordering: the baseline critic is called before the researcher has answered
ResumeCriticEarly(f, txt) ==
    CASE f.pc = "p1" ->
            CallIssue([f EXCEPT !.p1 = txt, !.pc = "c1"], "critic",
                      Prompt("critic_baseline", 0, txt, f.r1, {}), FALSE, BASE_TEMP, {})
      [] f.pc = "c1" ->
            CallIssue([f EXCEPT !.c1 = txt, !.pc = "r1"], "researcher",
                      Prompt("researcher_baseline", f.params[5], NoText, NoText, {}),
                      FALSE, BASE_TEMP, {})
      [] f.pc = "r1" ->
            [f EXCEPT !.r1 = txt, !.pc = "feedback", !.call = NoCall]
      [] f.pc = "p2" ->
            CallIssue([f EXCEPT !.p2 = txt, !.pc = "r2"], "researcher",
                      Prompt("researcher_influenced", 0, NoText, NoText, {}),
                      TRUE, BASE_TEMP, {})
      [] f.pc = "r2" ->
            CallIssue([f EXCEPT !.r2 = txt, !.pc = "c2"], "critic",
                      Prompt("critic_influenced", 0, f.p2, txt, {}), TRUE, BASE_TEMP, {})
      [] f.pc = "c2" ->
            [f EXCEPT !.c2 = txt, !.pc = "metrics", !.call = NoCall]
      [] OTHER ->
            [f EXCEPT !.ret = txt, !.pc = "returned", !.call.stage = "done"]

\* the caller of call() goes on with the text returned, up to its next await
Resume(f, txt) ==
    CASE f.pc = "p1" ->
            CallIssue([f EXCEPT !.p1 = txt, !.pc = "r1"], "researcher",
                      Prompt("researcher_baseline", f.params[5], NoText, NoText, {}),
                      FALSE, BASE_TEMP, {})
      [] f.pc = "r1" ->
            CallIssue([f EXCEPT !.r1 = txt, !.pc = "c1"], "critic",
                      Prompt("critic_baseline", 0, f.p1, txt, {}), FALSE, BASE_TEMP, {})
      [] f.pc = "c1" ->
            [f EXCEPT !.c1 = txt, !.pc = "feedback", !.call = NoCall]
      [] f.pc = "p2" ->
            CallIssue([f EXCEPT !.p2 = txt, !.pc = "r2"], "researcher",
                      Prompt("researcher_influenced", 0, NoText, NoText, {}),
                      TRUE, BASE_TEMP, {})
      [] f.pc = "r2" ->
            CallIssue([f EXCEPT !.r2 = txt, !.pc = "c2"], "critic",
                      Prompt("critic_influenced", 0, f.p2, txt, {}), TRUE, BASE_TEMP, {})
      [] f.pc = "c2" ->
            [f EXCEPT !.c2 = txt, !.pc = "metrics", !.call = NoCall]
      [] OTHER ->
            \* call() used on its own: the text goes to the caller
            [f EXCEPT !.ret = txt, !.pc = "returned", !.call.stage = "done"]

\* a slip: the repair is asked for again for as long as keys are missing
CallReplyRetrying(f, txt) ==
    LET f1 == [f EXCEPT !.replies =
                  Append(@, [name |-> f.call.task.name, stage |-> f.call.stage,
                             txt |-> txt])]
    IN  IF f.call.require_keys # {} /\ MissingKeys(f.call.require_keys, txt) # {}
           /\ Len(f.reqs) < 4
        THEN [f1 EXCEPT
                !.call.stage = "repair",
                !.reqs = Append(@, Request(f.call.agent,
                                           [f.call.task EXCEPT !.repair = TRUE],
                                           f.call.temperature))]
        ELSE Resume(f1, txt)

\* a slip: the agent scores itself on each response it gets
CallReplyLearning(f, txt) ==
    LET f1 == [f EXCEPT
                  !.replies = Append(@, [name |-> f.call.task.name,
                                         stage |-> f.call.stage, txt |-> txt]),
                  !.scores[f.call.agent] =
                      receive_feedback(@, f.call.agent,
                                       IF IsDict(txt) THEN SCALE ELSE 0, 6)]
    IN  Resume(f1, txt)

\* call() from the return of self.run: the repair request if keys are required
\* and missing from the first response, else the return to the caller
CallReply(f, txt) ==
    LET f1 == [f EXCEPT !.replies =
                  Append(@, [name |-> f.call.task.name, stage |-> f.call.stage,
                             txt |-> txt])]
    IN  IF f.call.stage = "first" /\ f.call.require_keys # {}
           /\ MissingKeys(f.call.require_keys, txt) # {}
        THEN [f1 EXCEPT
                !.call.stage = "repair",
                !.reqs = Append(@, Request(f.call.agent,
                                           [f.call.task EXCEPT !.repair = TRUE],
                                           f.call.temperature))]
        ELSE Resume(f1, txt)

\* a slip: the adversarial flag does not reach the two updates of the critic
FeedbackCriticUnmoved(scores, beta, adversarial) ==
    LET pl1 == receive_feedback(scores["planner"], "critic",
                                IF adversarial THEN Score(10) ELSE Score(90), beta)
        re1 == receive_feedback(scores["researcher"], "critic",
                                IF adversarial THEN Score(10) ELSE Score(70), beta)
        pl2 == receive_feedback(pl1, "researcher", Score(80), beta)
        re2 == receive_feedback(re1, "planner", Score(85), beta)
        cr1 == receive_feedback(scores["critic"], "planner", Score(80), beta)
        cr2 == receive_feedback(cr1, "researcher", Score(75), beta)
    IN  [a \in Agents |->
            IF a = "planner" THEN pl2 ELSE IF a = "researcher" THEN re2 ELSE cr2]

\* the simulated peer feedback of one_pass
Feedback(scores, beta, adversarial) ==
    LET pl1 == receive_feedback(scores["planner"], "critic",
                                IF adversarial THEN Score(10) ELSE Score(90), beta)
        re1 == receive_feedback(scores["researcher"], "critic",
                                IF adversarial THEN Score(10) ELSE Score(70), beta)
        pl2 == receive_feedback(pl1, "researcher", Score(80), beta)
        re2 == receive_feedback(re1, "planner", Score(85), beta)
        cr1 == receive_feedback(scores["critic"], "planner",
                                IF adversarial THEN Score(40) ELSE Score(80), beta)
        cr2 == receive_feedback(cr1, "researcher",
                                IF adversarial THEN Score(40) ELSE Score(75), beta)
    IN  [a \in Agents |->
            IF a = "planner" THEN pl2 ELSE IF a = "researcher" THEN re2 ELSE cr2]

\* the influenced planner prompt: the constraint is appended if
\* ", ".join(sorted(RF1)) is not the empty string, that is if RF1 has an
\* element (no name of RF1 is empty)
planner_infl_prompt(RF1) ==
    IF RF1 # {}
    THEN [Prompt("planner_influenced", 0, NoText, NoText, RF1) EXCEPT !.constrained = TRUE]
    ELSE Prompt("planner_influenced", 0, NoText, NoText, {})

\* a slip: the constraint is taken from the planner's baseline output
one_pass_feedback_planner_features(f) ==
    LET f1 == [f EXCEPT !.scores = Feedback(f.scores, f.params[1], f.params[6]),
                        !.pc = "p2"]
        PF1 == extract_features_from_json(f.p1)
    IN  CallIssue(f1, "planner", planner_infl_prompt(PF1), TRUE, BASE_TEMP, {})

\* one_pass from the feedback to the influenced planner call
one_pass_feedback(f) ==
    LET f1 == [f EXCEPT !.scores = Feedback(f.scores, f.params[1], f.params[6]),
                        !.pc = "p2"]
        RF1 == extract_features_from_json(f.r1)
    IN  CallIssue(f1, "planner", planner_infl_prompt(RF1), TRUE, BASE_TEMP, {})

\* round(x, 3) of a value in units of 1/SCALE, None staying None
round3(x) == IF x.none THEN None ELSE Some(((x.value + 5) \div 10) * 10)

\* a slip: the features dropped are counted, not those added
revision_depth_dropped(PF1, RF1, PF2, RF2) ==
    Cardinality((PF1 \cup RF1) \ (PF2 \cup RF2))

\* revd = len((PF2 | RF2) - (PF1 | RF1))
revision_depth(PF1, RF1, PF2, RF2) ==
    Cardinality((PF2 \cup RF2) \ (PF1 \cup RF1))

\* a slip: json.loads is not guarded, a text that is no JSON raises out of
\* the metrics
one_pass_metrics_unguarded(f) ==
    IF \E t \in {f.p1, f.r1, f.c1, f.p2, f.r2, f.c2} : t.parse = "invalid"
    THEN [f EXCEPT !.pc = "raised"]
    ELSE [f EXCEPT !.pc = "returned", !.out.set = TRUE]

\* one_pass from the metrics to its return: the dict returned
one_pass_metrics(f) ==
    LET PF1 == extract_features_from_json(f.p1)
        RF1 == extract_features_from_json(f.r1)
        PF2 == extract_features_from_json(f.p2)
        RF2 == extract_features_from_json(f.r2)
        dec1 == critic_decision_from_json(f.c1)
        dec2 == critic_decision_from_json(f.c2)
    IN
    [f EXCEPT
        !.pc = "returned",
        !.out = [set |-> TRUE,
                 beta |-> f.params[1], k |-> f.params[2], tau |-> f.params[3],
                 alpha |-> f.params[4], seed |-> f.params[5],
                 adversarial |-> f.params[6],
                 mu_planner |-> mu(f.scores["planner"]),
                 mu_researcher |-> mu(f.scores["researcher"]),
                 mu_critic |-> mu(f.scores["critic"]),
                 RoundsToApproval_baseline |-> rounds_to_approval(dec1),
                 RoundsToApproval_influence |-> rounds_to_approval(dec2),
                 AgreementRate_baseline |-> jaccard(PF1, RF1),
                 AgreementRate_influence |-> jaccard(PF2, RF2),
                 RevisionDepth_between_rounds |-> revision_depth(PF1, RF1, PF2, RF2),
                 PlannerResearcher_Canonical_baseline |->
                     round3(canonical_overlap(Raw(f.p1), Raw(f.r1))),
                 PlannerResearcher_Canonical_influence |->
                     round3(canonical_overlap(Raw(f.p2), Raw(f.r2))),
                 Planner_SelfAgreement |-> round3(jaccard(PF1, PF2)),
                 Researcher_SelfAgreement |-> round3(jaccard(RF1, RF2)),
                 planner_baseline |-> f.p1, researcher_baseline |-> f.r1,
                 critic_baseline |-> f.c1, planner_influence |-> f.p2,
                 researcher_influence |-> f.r2, critic_influence |-> f.c2]]

Suspended(f) == f.call.stage \in {"first", "repair"}

\* the service answers the request pass i waits for
PassReply(i, R, L) ==
    /\ i \in DOMAIN procs
    /\ Suspended(procs[i])
    /\ \E txt \in R[procs[i].call.agent], d \in L :
         /\ procs' = [procs EXCEPT ![i] = CallReply(@, txt)]
         /\ now' = Min(now + d, MaxClock)
    /\ UNCHANGED sweepVars

\* the request pass i waits for fails: the exception leaves call and one_pass
PassRaise(i, L) ==
    /\ i \in DOMAIN procs
    /\ Suspended(procs[i])
    /\ \E d \in L : now' = Min(now + d, MaxClock)
    /\ procs' = [procs EXCEPT ![i].pc = "raised", ![i].call.stage = "done"]
    /\ UNCHANGED sweepVars

PassFeedback(i) ==
    /\ i \in DOMAIN procs
    /\ procs[i].pc = "feedback"
    /\ procs' = [procs EXCEPT ![i] = one_pass_feedback(@)]
    /\ UNCHANGED <<sweepVars, now>>

PassMetrics(i) ==
    /\ i \in DOMAIN procs
    /\ procs[i].pc = "metrics"
    /\ procs' = [procs EXCEPT ![i] = one_pass_metrics(@)]
    /\ UNCHANGED <<sweepVars, now>>

----------------------------------------------------------------------------
(* run_grid_parallel.py: build_tasks, main and run_one *)

\* itertools.product(beta, k, tau, alpha, SEEDS, ADVERSARIAL), as a list
GridProduct ==
    LET nb == Len(GRID.beta)   nk == Len(GRID.k)   nt == Len(GRID.tau)
        na == Len(GRID.alpha)  ns == Len(SEEDS)    nv == Len(ADVERSARIAL)
    IN  [j \in 1..(nb * nk * nt * na * ns * nv) |->
            LET m == j - 1
            IN  << GRID.beta[((m \div (nk * nt * na * ns * nv)) % nb) + 1],
                   GRID.k[((m \div (nt * na * ns * nv)) % nk) + 1],
                   GRID.tau[((m \div (na * ns * nv)) % nt) + 1],
                   GRID.alpha[((m \div (ns * nv)) % na) + 1],
                   SEEDS[((m \div nv) % ns) + 1],
                   ADVERSARIAL[(m % nv) + 1] >>]

Reverse(s) == [j \in DOMAIN s |-> s[Len(s) + 1 - j]]

\* build_tasks(): random.shuffle under random.seed(1234) yields one fixed
\* order, the same in every run; the model draws it from these
build_tasks ==
    IF SHUFFLE_TASKS THEN {GridProduct, Reverse(GridProduct)} ELSE {GridProduct}

\* the time budget check of main's loop, operands exchanged
OverBudgetSwapped(t, t0) == (t0 - t) > TIME_BUDGET_S

\* TIME_BUDGET_S is not None and (time.time() - start) > TIME_BUDGET_S
OverBudget(t, t0) == (t - t0) > TIME_BUDGET_S

\* open(path, "w") in place of "a": the row replaces the file
FileWriteTruncating(lines, row) == <<row>>

\* with open(csv_path, "a"): w.writerow(short)
FileAppend(lines, row) == Append(lines, row)

\* main down to the loop: tasks, done, todo, the header, the semaphore, the
\* lock, the start time
MainStart ==
    /\ mainpc = "init"
    /\ done' = read_done_keys(fileExists, csv)
    /\ LET NotDone(p) == p \notin done'
       IN  todo' = SelectSeq(tasks, NotDone)
    /\ csv' = ensure_header(fileExists, csv)
    /\ fileExists' = TRUE
    /\ sem' = MAX_CONCURRENCY
    /\ writer_lock' = FALSE
    /\ start' = now
    /\ completed' = 0
    /\ idx' = 0
    /\ procs' = <<>>
    /\ writtenAtStart' = Len(written)
    /\ mainpc' = "loop"
    /\ UNCHANGED <<run, tasks, now, written, failedPrev, failedNow, budgetStop>>

\* the passes are gathered: each takes a permit of sem, main does not wait
\* for one before it starts the next
MainDispatchGathered ==
    /\ mainpc = "loop"
    /\ idx < Len(todo)
    /\ ~OverBudget(now, start)
    /\ sem > 0
    /\ idx' = idx + 1
    /\ sem' = sem - 1
    /\ procs' = Append(procs, one_pass_start(todo[idx + 1], "pass"))
    /\ UNCHANGED <<run, mainpc, tasks, done, todo, completed, start, now,
                   writer_lock, fileExists, csv, written, writtenAtStart,
                   failedPrev, failedNow, budgetStop>>

\* the passes are started as tasks of their own, not awaited and not gated
MainDispatchDetached ==
    /\ mainpc = "loop"
    /\ idx < Len(todo)
    /\ ~OverBudget(now, start)
    /\ idx' = idx + 1
    /\ procs' = Append(procs, one_pass_start(todo[idx + 1], "pass"))
    /\ UNCHANGED <<run, mainpc, tasks, done, todo, completed, start, now, sem,
                   writer_lock, fileExists, csv, written, writtenAtStart,
                   failedPrev, failedNow, budgetStop>>

\* one iteration of main's loop under budget: await run_one(...), which takes
\* a permit of sem and enters one_pass
MainDispatch ==
    /\ mainpc = "loop"
    /\ idx < Len(todo)
    /\ ~OverBudget(now, start)
    /\ sem > 0
    /\ idx' = idx + 1
    /\ sem' = sem - 1
    /\ procs' = Append(procs, one_pass_start(todo[idx + 1], "pass"))
    /\ mainpc' = "await"
    /\ UNCHANGED <<run, tasks, done, todo, completed, start, now, writer_lock,
                   fileExists, csv, written, writtenAtStart, failedPrev,
                   failedNow, budgetStop>>

\* the break of main's loop: the budget is exceeded
MainBreak ==
    /\ mainpc = "loop"
    /\ idx < Len(todo)
    /\ OverBudget(now, start)
    /\ mainpc' = "done"
    /\ budgetStop' = TRUE
    /\ UNCHANGED <<run, tasks, done, todo, idx, completed, start, now, sem,
                   writer_lock, fileExists, csv, procs, written, writtenAtStart,
                   failedPrev, failedNow>>

\* the loop is exhausted
MainExit ==
    /\ mainpc = "loop"
    /\ idx = Len(todo)
    /\ mainpc' = "done"
    /\ UNCHANGED <<run, tasks, done, todo, idx, completed, start, now, sem,
                   writer_lock, fileExists, csv, procs, written, writtenAtStart,
                   failedPrev, failedNow, budgetStop>>

\* run_one: one_pass has returned, async with writer_lock is entered
RunOneLock(i) ==
    /\ i \in DOMAIN procs
    /\ procs[i].rpc = "pass"
    /\ procs[i].pc = "returned"
    /\ ~writer_lock
    /\ writer_lock' = TRUE
    /\ procs' = [procs EXCEPT ![i].rpc = "locked"]
    /\ UNCHANGED <<run, mainpc, tasks, done, todo, idx, completed, start, now,
                   sem, fileExists, csv, written, writtenAtStart, failedPrev,
                   failedNow, budgetStop>>

\* run_one: the row is appended, lock and permit are released, main resumes
RunOneWrite(i) ==
    /\ i \in DOMAIN procs
    /\ procs[i].rpc = "locked"
    /\ csv' = FileAppend(csv, FormatRow(procs[i].out))
    /\ fileExists' = TRUE
    /\ written' = Append(written, procs[i].params)
    /\ writer_lock' = FALSE
    /\ sem' = sem + 1
    /\ procs' = [procs EXCEPT ![i] = Finished(@, "saved")]
    /\ mainpc' = "loop"
    /\ completed' = completed + 1
    /\ UNCHANGED <<run, tasks, done, todo, idx, start, now, writtenAtStart,
                   failedPrev, failedNow, budgetStop>>

\* the lock taken with acquire() and released only after the write: a write
\* that raises leaves it held
RunOneWriteFailHoldingLock(i) ==
    /\ i \in DOMAIN procs
    /\ procs[i].rpc = "locked"
    /\ sem' = sem + 1
    /\ procs' = [procs EXCEPT ![i] = Finished(@, "error")]
    /\ failedNow' = failedNow \cup {procs[i].params}
    /\ mainpc' = "loop"
    /\ completed' = completed + 1
    /\ UNCHANGED <<run, tasks, done, todo, idx, start, now, writer_lock,
                   fileExists, csv, written, writtenAtStart, failedPrev,
                   budgetStop>>

\* run_one: opening or writing the file raises; the except clause logs it
RunOneWriteFail(i) ==
    /\ i \in DOMAIN procs
    /\ procs[i].rpc = "locked"
    /\ writer_lock' = FALSE
    /\ sem' = sem + 1
    /\ procs' = [procs EXCEPT ![i] = Finished(@, "error")]
    /\ failedNow' = failedNow \cup {procs[i].params}
    /\ mainpc' = "loop"
    /\ completed' = completed + 1
    /\ UNCHANGED <<run, tasks, done, todo, idx, start, now, fileExists, csv,
                   written, writtenAtStart, failedPrev, budgetStop>>

\* no except clause: the exception of the pass leaves run_one and main
RunOneNoExcept(i) ==
    /\ i \in DOMAIN procs
    /\ procs[i].rpc = "pass"
    /\ procs[i].pc = "raised"
    /\ sem' = sem + 1
    /\ procs' = [procs EXCEPT ![i] = Finished(@, "error")]
    /\ failedNow' = failedNow \cup {procs[i].params}
    /\ mainpc' = "crashed"
    /\ UNCHANGED <<run, tasks, done, todo, idx, completed, start, now,
                   writer_lock, fileExists, csv, written, writtenAtStart,
                   failedPrev, budgetStop>>

\* the except clause records the failed tuple in the store
RunOneExceptRecording(i) ==
    /\ i \in DOMAIN procs
    /\ procs[i].rpc = "pass"
    /\ procs[i].pc = "raised"
    /\ csv' = FileAppend(csv, FormatRow([beta |-> procs[i].params[1],
                                         k |-> procs[i].params[2],
                                         tau |-> procs[i].params[3],
                                         alpha |-> procs[i].params[4],
                                         seed |-> procs[i].params[5],
                                         adversarial |-> procs[i].params[6]]))
    /\ sem' = sem + 1
    /\ procs' = [procs EXCEPT ![i] = Finished(@, "error")]
    /\ failedNow' = failedNow \cup {procs[i].params}
    /\ mainpc' = "loop"
    /\ completed' = completed + 1
    /\ UNCHANGED <<run, tasks, done, todo, idx, start, now, writer_lock,
                   fileExists, written, writtenAtStart, failedPrev,
                   budgetStop>>

\* run_one: the pass raised; the except clause logs it, the permit is
\* released, main resumes
RunOneExcept(i) ==
    /\ i \in DOMAIN procs
    /\ procs[i].rpc = "pass"
    /\ procs[i].pc = "raised"
    /\ sem' = sem + 1
    /\ procs' = [procs EXCEPT ![i] = Finished(@, "error")]
    /\ failedNow' = failedNow \cup {procs[i].params}
    /\ mainpc' = "loop"
    /\ completed' = completed + 1
    /\ UNCHANGED <<run, tasks, done, todo, idx, start, now, writer_lock,
                   fileExists, csv, written, writtenAtStart, failedPrev,
                   budgetStop>>

\* the process has ended; the sweep is run again on the same store
NewRun ==
    /\ mainpc = "done"
    /\ run < MaxRuns
    /\ run' = run + 1
    /\ mainpc' = "init"
    /\ done' = {}
    /\ todo' = <<>>
    /\ idx' = 0
    /\ completed' = 0
    /\ start' = 0
    /\ now' = 0
    /\ sem' = MAX_CONCURRENCY
    /\ writer_lock' = FALSE
    /\ procs' = <<>>
    /\ failedPrev' = failedNow
    /\ failedNow' = {}
    /\ budgetStop' = FALSE
    /\ UNCHANGED <<tasks, fileExists, csv, written, writtenAtStart>>

Init ==
    /\ run = 1
    /\ mainpc = "init"
    /\ tasks \in build_tasks
    /\ done = {}
    /\ todo = <<>>
    /\ idx = 0
    /\ completed = 0
    /\ start = 0
    /\ now = 0
    /\ sem = MAX_CONCURRENCY
    /\ writer_lock = FALSE
    /\ fileExists \in BOOLEAN
    /\ csv = <<>>
    /\ procs = <<>>
    /\ written = <<>>
    /\ writtenAtStart = 0
    /\ failedPrev = {}
    /\ failedNow = {}
    /\ budgetStop = FALSE

Reply == \E i \in DOMAIN procs : PassReply(i, RepliesSweep, Latency)
Raise == \E i \in DOMAIN procs : PassRaise(i, Latency)
DoFeedback == \E i \in DOMAIN procs : PassFeedback(i)
DoMetrics == \E i \in DOMAIN procs : PassMetrics(i)
Lock == \E i \in DOMAIN procs : RunOneLock(i)
Write == \E i \in DOMAIN procs : RunOneWrite(i)
WriteFail == \E i \in DOMAIN procs : RunOneWriteFail(i)
Except == \E i \in DOMAIN procs : RunOneExcept(i)

Next ==
    \/ MainStart
    \/ MainDispatch
    \/ MainBreak
    \/ MainExit
    \/ NewRun
    \/ Reply
    \/ Raise
    \/ DoFeedback
    \/ DoMetrics
    \/ Lock
    \/ Write
    \/ WriteFail
    \/ Except

\* the sweep: main of run_grid_parallel.py, run up to MaxRuns times
Spec == Init /\ [][Next]_vars

----------------------------------------------------------------------------
\* the steps of main
MainStep == MainStart \/ MainDispatch \/ MainBreak \/ MainExit

\* a request of the pass in flight returns or fails
RequestEnds == Reply \/ Raise

\* the steps of the pass and of run_one between and after the requests, but
\* for the metrics
RunOneStep == DoFeedback \/ Lock \/ Write \/ WriteFail \/ Except

\* a pass has its six texts and its metrics are to be computed: this is
\* ENABLED <<DoMetrics>>_vars, by the guard of PassMetrics
MetricsDue == \E i \in DOMAIN procs : procs[i].pc = "metrics"

\* WF_vars(DoMetrics), with MetricsDue for the enabling condition
MetricsFair == []<>(~MetricsDue) \/ []<><<DoMetrics>>_vars

NextLive == MainStep \/ RequestEnds \/ RunOneStep \/ DoMetrics

\* one sweep run under the event loop of asyncio.run: a coroutine that can go
\* on is resumed, and every request to the generation service ends
SpecLive ==
    /\ Init
    /\ [][NextLive]_vars
    /\ WF_vars(MainStep)
    /\ WF_vars(RequestEnds)
    /\ WF_vars(RunOneStep)
    /\ MetricsFair

----------------------------------------------------------------------------
(* One pass on its own, as main of run_grid.py awaits it: any answer of the *)
(* service, well-formed or not, to every request.                           *)

\* parameter tuples of the grid of run_grid.py
PassParams == {<<3, 30, t, a, 1, v>> : t \in {4, 5}, a \in {4, 8}, v \in BOOLEAN}

NoSweep ==
    /\ run = 1
    /\ mainpc = "none"
    /\ tasks = <<>>
    /\ done = {}
    /\ todo = <<>>
    /\ idx = 0
    /\ completed = 0
    /\ start = 0
    /\ now = 0
    /\ sem = MAX_CONCURRENCY
    /\ writer_lock = FALSE
    /\ fileExists = FALSE
    /\ csv = <<>>
    /\ written = <<>>
    /\ writtenAtStart = 0
    /\ failedPrev = {}
    /\ failedNow = {}
    /\ budgetStop = FALSE

InitPass ==
    /\ NoSweep
    /\ \E p \in PassParams : procs = <<one_pass_start(p, "direct")>>

ReplyAny == PassReply(1, RepliesAny, {0})
RaiseAny == PassRaise(1, {0})

NextPass ==
    \/ ReplyAny
    \/ RaiseAny
    \/ DoFeedback
    \/ DoMetrics

SpecPass == InitPass /\ [][NextPass]_vars

----------------------------------------------------------------------------
(* call() on its own: any agent, with or without influence, any required    *)
(* keys, peer scores absent or present, any answers.                        *)

AllTexts == {TxtInvalid, TxtArray, TxtEmptyObject, TxtPlan, TxtFeatures, TxtApprove}

RepliesAll == [a \in Agents |-> AllTexts]

RequireKeysChoices == {{}, {"features"}, {"features", "steps"}, {"decision"}}

ScoresChoices ==
    {[a \in Agents |-> <<>>], Feedback([a \in Agents |-> <<>>], 6, FALSE)}

InitCall ==
    /\ NoSweep
    /\ \E agent \in Agents, influenced \in BOOLEAN, keys \in RequireKeysChoices,
          sc \in ScoresChoices :
         procs = << CallIssue([NewFrame(<<6, 60, 5, 8, 1, FALSE>>, "direct")
                                  EXCEPT !.pc = "call", !.scores = sc],
                              agent, Prompt("task", 0, NoText, NoText, {}),
                              influenced, BASE_TEMP, keys) >>

ReplyAll == PassReply(1, RepliesAll, {0})

NextCall ==
    \/ ReplyAll
    \/ RaiseAny

SpecCall == InitCall /\ [][NextCall]_vars

----------------------------------------------------------------------------
(* A MutualInfluenceAssistant's trust tracker on its own: from the tracker  *)
(* as constructed, any sequence of receive_feedback calls, with any peer,   *)
(* any score (also outside [0,1]) and any rate.  The tracker is kept with   *)
(* the arguments of the last call and the mapping that call started from.   *)

MaxFeedbacks == 3

FeedbackPeers == {"planner", "researcher"}
FeedbackScores == {0 - SCALE \div 2, 0, Score(30), SCALE, SCALE + SCALE \div 2}
FeedbackRates == {0, 3, 10, 15}

\* __init__: peer_scores = {}
NewTracker ==
    [peer_scores |-> <<>>, calls |-> 0, from_peer |-> "", score |-> 0, beta |-> 0,
     before |-> <<>>]

InitTrust ==
    /\ NoSweep
    /\ procs = <<NewTracker>>

ReceiveFeedback ==
    /\ procs[1].calls < MaxFeedbacks
    /\ \E from_peer \in FeedbackPeers, score \in FeedbackScores, beta \in FeedbackRates :
         procs' = <<[peer_scores |-> receive_feedback(procs[1].peer_scores,
                                                     from_peer, score, beta),
                     calls |-> procs[1].calls + 1,
                     from_peer |-> from_peer, score |-> score, beta |-> beta,
                     before |-> procs[1].peer_scores]>>
    /\ UNCHANGED <<sweepVars, now>>

NextTrust == ReceiveFeedback

SpecTrust == InitTrust /\ [][NextTrust]_vars

----------------------------------------------------------------------------
(* The two functions of the influence model on their own: the arguments are *)
(* drawn at the start, then each function is applied to them.               *)

MuChoices == {0 - SCALE, 0, Score(40), Score(50), SCALE}
T0Choices == {0 - T0_DEFAULT, 0, T0_DEFAULT, 2 * SCALE}
AlphaChoices == {0 - 10, 0 - 4, 0, 8, 12}
KChoices == {0 - 30, 0, 10, 30}
TauChoices == {0, Score(40), Score(50), SCALE}

InitInfluence ==
    /\ NoSweep
    /\ \E m \in MuChoices, T0 \in T0Choices, alpha \in AlphaChoices,
          k \in KChoices, tau \in TauChoices :
         procs = <<[mu |-> m, T0 |-> T0, alpha |-> alpha, k |-> k, tau |-> tau,
                    applied |-> "none", raised |-> FALSE, result |-> 0]>>

\* temperature_from_mu(mu, T0, alpha) is called
Temperature ==
    /\ procs[1].applied = "none"
    /\ procs' = <<[procs[1] EXCEPT
                    !.applied = "temperature_from_mu",
                    !.raised = temperature_raises(procs[1].mu, procs[1].alpha),
                    !.result = IF temperature_raises(procs[1].mu, procs[1].alpha)
                               THEN 0
                               ELSE temperature_from_mu(procs[1].mu, procs[1].T0,
                                                        procs[1].alpha)]>>
    /\ UNCHANGED <<sweepVars, now>>

\* lambda_from_mu(mu, k, tau) is called
Mixing ==
    /\ procs[1].applied = "none"
    /\ procs' = <<[procs[1] EXCEPT
                    !.applied = "lambda_from_mu",
                    !.result = lambda_from_mu(procs[1].mu, procs[1].k, procs[1].tau)]>>
    /\ UNCHANGED <<sweepVars, now>>

NextInfluence ==
    \/ Temperature
    \/ Mixing

SpecInfluence == InitInfluence /\ [][NextInfluence]_vars

----------------------------------------------------------------------------
(* The two set-similarity functions of metrics.py on their own: the         *)
(* arguments are drawn at the start, then the function is applied to them.  *)

FeatureNames == {<<"a">>, <<"b">>, <<"c">>}

\* "entropy tls flow"
TextTlsFlow == <<"e", "n", "t", "r", "o", "p", "y", " ", "t", "l", "s", " ", "f", "l", "o", "w">>
\* "entropy http flow"
TextHttpFlow == <<"e", "n", "t", "r", "o", "p", "y", " ", "h", "t", "t", "p", " ", "f", "l", "o", "w">>
\* "TLS"
TextTlsUpper == <<"T", "L", "S">>
\* "flow"
TextFlow == <<"f", "l", "o", "w">>
\* "tls-dns"
TextTlsDns == <<"t", "l", "s", "-", "d", "n", "s">>
\* "packets x"
TextPackets == <<"p", "a", "c", "k", "e", "t", "s", " ", "x">>

OverlapTexts ==
    {<<>>, TextTlsFlow, TextHttpFlow, TextTlsUpper, TextFlow, TextTlsDns, TextPackets}

ExtractTexts ==
    {TxtInvalid, TxtArray, TxtEmptyObject, TxtApprove, TxtFeaturesString,
     TxtFeaturesBlank, TxtPlan, TxtFeatures}

InitMetrics ==
    /\ NoSweep
    /\ \/ \E a \in SUBSET FeatureNames, b \in SUBSET FeatureNames :
            procs = <<[fn |-> "jaccard", a |-> a, b |-> b, applied |-> FALSE,
                       result |-> None]>>
       \/ \E a \in OverlapTexts, b \in OverlapTexts :
            procs = <<[fn |-> "canonical_overlap", a |-> a, b |-> b,
                       applied |-> FALSE, result |-> None]>>
       \/ \E a \in ExtractTexts :
            procs = <<[fn |-> "extract_features_from_json", a |-> a, b |-> NoText,
                       applied |-> FALSE, result |-> {}]>>

\* jaccard(a, b) is called
Jaccard ==
    /\ procs[1].fn = "jaccard"
    /\ ~procs[1].applied
    /\ procs' = <<[procs[1] EXCEPT !.applied = TRUE,
                                   !.result = jaccard(procs[1].a, procs[1].b)]>>
    /\ UNCHANGED <<sweepVars, now>>

\* canonical_overlap(text_a, text_b) is called
CanonicalOverlap ==
    /\ procs[1].fn = "canonical_overlap"
    /\ ~procs[1].applied
    /\ procs' = <<[procs[1] EXCEPT !.applied = TRUE,
                                   !.result = canonical_overlap(procs[1].a, procs[1].b)]>>
    /\ UNCHANGED <<sweepVars, now>>

\* extract_features_from_json(s) is called
ExtractFeatures ==
    /\ procs[1].fn = "extract_features_from_json"
    /\ ~procs[1].applied
    /\ procs' = <<[procs[1] EXCEPT !.applied = TRUE,
                                   !.result = extract_features_from_json(procs[1].a)]>>
    /\ UNCHANGED <<sweepVars, now>>

NextMetrics ==
    \/ Jaccard
    \/ CanonicalOverlap
    \/ ExtractFeatures

SpecMetrics == InitMetrics /\ [][NextMetrics]_vars

----------------------------------------------------------------------------
(* Two passes side by side, each as main of run_grid.py awaits it, with     *)
(* nothing shared between them: the same beta, the adversarial flag of      *)
(* each chosen freely, the other parameters the same or not; the first gets *)
(* the answers asked for, the second gets answers that are no JSON or are   *)
(* empty objects.                                                           *)

PairBetas == {0, 3, 6, 10}

PairParams(beta, adversarial, other) ==
    IF other THEN <<beta, 60, 5, 8, 2, adversarial>>
    ELSE <<beta, 30, 4, 4, 1, adversarial>>

RepliesPoor == [a \in Agents |-> {TxtInvalid, TxtEmptyObject}]

InitPair ==
    /\ NoSweep
    /\ \E beta \in PairBetas, adv1 \in BOOLEAN, adv2 \in BOOLEAN, other \in BOOLEAN :
         procs = <<one_pass_start(PairParams(beta, adv1, FALSE), "direct"),
                   one_pass_start(PairParams(beta, adv2, other), "direct")>>

ReplyFirst == PassReply(1, RepliesSweep, {0})
ReplySecond == PassReply(2, RepliesPoor, {0})

NextPair ==
    \/ ReplyFirst
    \/ ReplySecond
    \/ DoFeedback
    \/ DoMetrics

SpecPair == InitPair /\ [][NextPair]_vars

----------------------------------------------------------------------------
(* Properties of the sweep *)

Running == mainpc \in {"loop", "await", "done"}

\* the tuples that had a row in the store when this run read it
StoredAtStart == {written[j] : j \in 1..writtenAtStart}

Started == {procs[i].params : i \in DOMAIN procs}

InFlight == {i \in DOMAIN procs : procs[i].rpc \in {"pass", "locked"}}

\* C1: resumability.  A run never starts a pass for a tuple that had a row in
\* the store when the run read it; its to-do list holds every other tuple of
\* the grid exactly once, and a run that is not cut short runs exactly those.
C1_Resumability ==
    Running =>
        /\ Started \cap StoredAtStart = {}
        /\ Range(todo) = Range(tasks) \ StoredAtStart
        /\ Cardinality(Range(todo)) = Len(todo)
        /\ \A i \in DOMAIN procs : procs[i].params = todo[i]
        /\ (mainpc = "done" /\ ~budgetStop) => Len(procs) = Len(todo)

\* a resumed run on a store that held rows has run to its end and has run a pass
C1_Witness ==
    /\ run = 2
    /\ mainpc = "done"
    /\ ~budgetStop
    /\ StoredAtStart # {}
    /\ Len(procs) >= 1
    /\ Len(procs) < Len(tasks)

\* C2: bounded concurrency.  The passes started and not yet finished are never
\* more than MAX_CONCURRENCY.
C2_BoundedConcurrency == Cardinality(InFlight) <= MAX_CONCURRENCY

\* a pass is in flight, suspended at a request
C2_Witness == \E i \in InFlight : Suspended(procs[i]) /\ sem < MAX_CONCURRENCY

\* C3: time budget.  Once the elapsed time exceeds the budget at a dispatch
\* check, no pass is started at that check nor later in the run; a pass in
\* flight when the budget runs out is not cancelled: it ends only by its own
\* return, with its row appended, or by its own exception; and when the loop
\* is left every pass started has ended.
C3_TimeBudget ==
    [][ (run' = run) =>
          /\ (mainpc = "loop" /\ (now - start) > TIME_BUDGET_S)
                => Len(procs') = Len(procs)
          /\ budgetStop => (procs' = procs /\ mainpc' = "done")
          /\ (budgetStop' /\ ~budgetStop)
                => /\ (now - start) > TIME_BUDGET_S
                   /\ \A i \in DOMAIN procs : procs[i].rpc \in {"saved", "error"}
          /\ \A i \in DOMAIN procs :
                ((now - start) > TIME_BUDGET_S /\ procs[i].rpc \in {"pass", "locked"})
                => /\ i \in DOMAIN procs'
                   /\ procs'[i].rpc \in {"pass", "locked", "saved", "error"}
                   /\ procs'[i].rpc = "error"
                        => (procs[i].pc = "raised" \/ procs[i].rpc = "locked")
                   /\ procs'[i].rpc = "saved"
                        => /\ Len(csv') = Len(csv) + 1
                           /\ written' = Append(written, procs[i].params)
      ]_vars

\* the run was stopped by the budget, and the pass that was in flight when the
\* budget ran out has had its row appended
C3_Witness ==
    /\ budgetStop
    /\ Len(procs) >= 1
    /\ Len(procs) < Len(todo)
    /\ procs[Len(procs)].rpc = "saved"
    /\ written[Len(written)] = procs[Len(procs)].params

\* C4: a pass that raises.  The exception is caught in run_one: the store is
\* left as it is, main is never left by an exception, and main is back at its
\* loop with the same to-do list, the remaining tasks still to come.
C4_ExceptionCaught ==
    [][ /\ mainpc' # "crashed"
        /\ \A i \in DOMAIN procs :
             (procs[i].rpc = "pass" /\ procs[i].pc = "raised" /\ run' = run)
             => /\ i \in DOMAIN procs'
                /\ procs'[i].rpc \in {"pass", "error"}
                /\ procs'[i].rpc = "error"
                     => /\ csv' = csv
                        /\ fileExists' = fileExists
                        /\ written' = written
                        /\ mainpc' = "loop"
                        /\ todo' = todo
                        /\ idx' = idx
      ]_vars

\* after a pass that raised, with no row for it, a later task is in flight
C4_Witness ==
    \E i, j \in DOMAIN procs :
        /\ i < j
        /\ procs[i].rpc = "error"
        /\ procs[i].params \notin Range(written)
        /\ procs[j].rpc = "pass"

\* C5 as stated: the run after a failed pass starts a pass for the failed tuple
C5_RetryStarted ==
    (run >= 2 /\ mainpc = "done") => failedPrev \subseteq Started

\* C5: retry eligibility.  A tuple whose pass failed in the previous run is
\* not in the checkpoint and is in the to-do list of this run; a pass is
\* started for it unless the time budget stops the run first; and the
\* checkpoint holds only tuples for which a completed pass appended a row.
C5_RetryEligible ==
    Running =>
        /\ done \subseteq StoredAtStart
        /\ run >= 2 => (failedPrev \cap done = {} /\ failedPrev \subseteq Range(todo))
        /\ (run >= 2 /\ mainpc = "done" /\ ~budgetStop) => failedPrev \subseteq Started

\* a tuple that failed in the first run has its row appended by the second
C5_Witness ==
    /\ run = 2
    /\ mainpc = "done"
    /\ ~budgetStop
    /\ \E i \in DOMAIN procs :
         /\ procs[i].params \in failedPrev
         /\ procs[i].rpc = "saved"
         /\ procs[i].params \in Range(written)

\* C6: exclusive appends.  At most one run_one is inside the append section,
\* and only with the lock held; the store changes only by one row added at
\* its end by the run_one inside the section (or by the header written into
\* an empty store); a run_one that ends without error has added exactly one
\* row, one that ends in error none.
C6_ExclusiveAppend ==
    [][ /\ Cardinality({i \in DOMAIN procs : procs[i].rpc = "locked"}) <= 1
        /\ (\E i \in DOMAIN procs : procs[i].rpc = "locked") => writer_lock
        /\ (csv' # csv /\ mainpc = "init") => csv = <<>>
        /\ (csv' # csv /\ mainpc # "init")
             => /\ Len(csv') = Len(csv) + 1
                /\ SubSeq(csv', 1, Len(csv)) = csv
                /\ \E i \in DOMAIN procs :
                     /\ procs[i].rpc = "locked"
                     /\ procs'[i].rpc = "saved"
        /\ \A i \in DOMAIN procs :
             (i \in DOMAIN procs' /\ procs'[i].rpc # procs[i].rpc)
             => /\ procs'[i].rpc = "saved"
                     => /\ procs[i].rpc = "locked"
                        /\ Len(csv') = Len(csv) + 1
                        /\ SubSeq(csv', 1, Len(csv)) = csv
                /\ procs'[i].rpc = "error" => csv' = csv
      ]_vars

\* a run_one holds the lock, about to append to a store that has data rows
C6_Witness ==
    /\ writer_lock
    /\ Len(csv) >= 3
    /\ \E i \in DOMAIN procs : procs[i].rpc = "locked"

\* C7: the header row.  Before the first run the store is empty; from then on
\* its first line is the header and no other line is: a run writes the header
\* into a missing or empty store and writes none into a store with content.
C7_HeaderOnce ==
    /\ (run = 1 /\ mainpc = "init") => csv = <<>>
    /\ (run > 1 \/ mainpc # "init")
         => /\ fileExists
            /\ Len(csv) = 1 + Len(written)
            /\ csv[1] = FIELDNAMES
            /\ \A j \in 2..Len(csv) : csv[j] # FIELDNAMES

\* a second run has started on a store with data rows
C7_Witness ==
    /\ run = 2
    /\ mainpc = "loop"
    /\ Len(csv) >= 2
    /\ Len(written) = writtenAtStart

----------------------------------------------------------------------------
(* Properties of one pass and of one call *)

PromptOrder ==
    << "planner_baseline", "researcher_baseline", "critic_baseline",
       "planner_influenced", "researcher_influenced", "critic_influenced" >>

IsSet(t) == t.parse # "unset"

\* C8: the order of the steps of a pass.  The requests are issued in the
\* order planner, researcher, critic of round 1, then of round 2, none twice;
\* an output is there exactly when its request was answered; the feedback is
\* applied after the third answer and before the fourth request; each critic
\* prompt embeds the two outputs of its round; the record is assembled last.
C8_StepOrder ==
    \A i \in DOMAIN procs :
        LET f == procs[i]
            n == Len(f.reqs)
            outs == <<f.p1, f.r1, f.c1, f.p2, f.r2, f.c2>>
            answered == Len(f.replies)
        IN  /\ n <= 6
            /\ \A j \in 1..n : f.reqs[j].task.name = PromptOrder[j]
            /\ answered \in {n - 1, n}
            /\ \A j \in 1..6 : IsSet(outs[j]) <=> j <= answered
            /\ \A j \in 1..answered : outs[j] = f.replies[j].txt
            /\ (n >= 4) <=> (\A a \in Agents : DOMAIN f.scores[a] # {})
            /\ (n <= 3) <=> (\A a \in Agents : DOMAIN f.scores[a] = {})
            /\ f.pc = "feedback" => (n = 3 /\ answered = 3)
            /\ n >= 3 => (/\ IsSet(f.reqs[3].task.planner)
                          /\ f.reqs[3].task.planner = f.p1
                          /\ f.reqs[3].task.researcher = f.r1
                          /\ IsSet(f.reqs[3].task.researcher))
            /\ n >= 6 => (/\ IsSet(f.reqs[6].task.planner)
                          /\ f.reqs[6].task.planner = f.p2
                          /\ f.reqs[6].task.researcher = f.r2
                          /\ IsSet(f.reqs[6].task.researcher))
            /\ f.pc = "metrics" => (answered = 6 /\ ~f.out.set)
            /\ f.out.set => (answered = 6 /\ f.pc = "returned")

\* a pass has gone through all its steps and returned its record
C8_Witness ==
    /\ procs[1].pc = "returned"
    /\ procs[1].out.set
    /\ Len(procs[1].reqs) = 6

\* the first response lacks a required key or is no JSON object
NeedsRepair(f) ==
    /\ Len(f.replies) >= 1
    /\ f.call.require_keys # {}
    /\ \/ f.replies[1].txt.parse # "object"
       \/ \E key \in f.call.require_keys : ~HasKey(f.replies[1].txt, key)

\* C9: the requests of one call.  One initial request; a second, the repair,
\* exactly when keys are required and the first response is not an object
\* with all of them; never a third; the text returned is the response to the
\* last request issued.
C9_OneRepair ==
    LET f == procs[1]
        n == Len(f.reqs)
    IN  /\ n \in {1, 2}
        /\ ~f.reqs[1].task.repair
        /\ n = 2 <=> NeedsRepair(f)
        /\ n = 2 => f.reqs[2].task.repair
        /\ Len(f.replies) <= n
        /\ f.pc = "returned"
             => /\ Len(f.replies) = n
                /\ f.ret = f.replies[n].txt

\* a call has returned a repair response that still lacks required keys
C9_Witness ==
    /\ procs[1].pc = "returned"
    /\ Len(procs[1].reqs) = 2
    /\ MissingKeys(procs[1].call.require_keys, procs[1].ret) # {}

\* the key one_pass reads from the answer to a prompt
ExpectedKey(name) ==
    IF name \in {"critic_baseline", "critic_influenced"} THEN "decision" ELSE "features"

\* C10 as stated: in a pass, an answer that is no JSON object with the
\* expected key is followed by a repair request for that call
C10_RepairInPass ==
    \A i \in DOMAIN procs :
        LET f == procs[i]
        IN  \A j \in DOMAIN f.replies :
                ~(f.replies[j].txt.parse = "object"
                  /\ HasKey(f.replies[j].txt, ExpectedKey(f.replies[j].name)))
                => \E m \in DOMAIN f.reqs :
                     /\ f.reqs[m].task.name = f.replies[j].name
                     /\ f.reqs[m].task.repair

----------------------------------------------------------------------------
(* Properties of the trust tracker *)

InUnit(x) == 0 <= x /\ x <= SCALE

\* C12: receive_feedback with beta = 0 is a no-op: whatever the tracker, the
\* peer (also one with no stored score yet) and the score, peer_scores and mu
\* are after the call what they were before it.
C12_ZeroRateNoOp ==
    (procs[1].calls > 0 /\ procs[1].beta = 0) =>
        /\ procs[1].peer_scores = procs[1].before
        /\ mu(procs[1].peer_scores) = mu(procs[1].before)

\* C13: receive_feedback with beta = 1 stores exactly the score (a score of
\* [0,1]; one outside is clamped first) for that peer, whatever was stored or
\* the prior, and leaves the score of every other peer as it was.
C13_FullRateSetsScore ==
    (procs[1].calls > 0 /\ procs[1].beta = 10) =>
        /\ DOMAIN procs[1].peer_scores = DOMAIN procs[1].before \cup {procs[1].from_peer}
        /\ procs[1].peer_scores[procs[1].from_peer] =
              Max(0, Min(SCALE, procs[1].score))
        /\ InUnit(procs[1].score) =>
              procs[1].peer_scores[procs[1].from_peer] = procs[1].score
        /\ \A p \in DOMAIN procs[1].before \ {procs[1].from_peer} :
              procs[1].peer_scores[p] = procs[1].before[p]

\* beta = 1 on a peer whose stored value differs from both the prior and the
\* score, with another peer stored
C13_Witness ==
    /\ procs[1].calls > 1
    /\ procs[1].beta = 10
    /\ procs[1].score = SCALE
    /\ procs[1].from_peer \in DOMAIN procs[1].before
    /\ procs[1].before[procs[1].from_peer] \notin {PRIOR, SCALE}
    /\ DOMAIN procs[1].before # {procs[1].from_peer}
    /\ procs[1].peer_scores[procs[1].from_peer] = SCALE

\* C14: after any sequence of receive_feedback calls (any peers, any scores,
\* any rate) every stored peer score and mu lie in [0,1].
C14_TrustInUnitInterval ==
    /\ \A p \in DOMAIN procs[1].peer_scores : InUnit(procs[1].peer_scores[p])
    /\ InUnit(mu(procs[1].peer_scores))

----------------------------------------------------------------------------
(* Properties of the influence model *)

\* C15: temperature_from_mu returns a value in [0.1, 1.5] for every mu, T0
\* and alpha, a negative mu giving what mu = 0 gives, and
\* temperature(0, 0.7, 0.8) = 0.7.
C15_TemperatureRange ==
    procs[1].applied = "temperature_from_mu" =>
        /\ ~procs[1].raised
        /\ SCALE \div 10 <= procs[1].result
        /\ procs[1].result <= (15 * SCALE) \div 10
        /\ procs[1].mu < 0 =>
              procs[1].result = temperature_from_mu(0, procs[1].T0, procs[1].alpha)
        /\ (procs[1].mu = 0 /\ procs[1].T0 = T0_DEFAULT /\ procs[1].alpha = 8) =>
              procs[1].result = T0_DEFAULT

\* C16: lambda_from_mu(mu, k, tau) is exactly 0.5 whenever mu = tau, for any
\* steepness k and any midpoint tau.
C16_MixingAtMidpoint ==
    (procs[1].applied = "lambda_from_mu" /\ procs[1].mu = procs[1].tau) =>
        procs[1].result = SCALE \div 2

\* mixing applied at a midpoint other than 0, with a steepness other than 0
C16_Witness ==
    /\ procs[1].applied = "lambda_from_mu"
    /\ procs[1].mu = procs[1].tau
    /\ procs[1].tau = Score(40)
    /\ procs[1].k = 30
    /\ procs[1].result = SCALE \div 2

----------------------------------------------------------------------------
(* Properties of the metrics functions *)

\* the canonical tokens of each text of OverlapTexts, read off the vocabulary
\* of metrics.py by hand
TagsByHand(t) ==
    CASE t = TextTlsFlow -> {<<"e", "n", "t", "r", "o", "p", "y">>, <<"t", "l", "s">>}
      [] t = TextHttpFlow -> {<<"e", "n", "t", "r", "o", "p", "y">>, <<"h", "t", "t", "p">>}
      [] t = TextTlsUpper -> {<<"t", "l", "s">>}
      [] t = TextTlsDns -> {<<"t", "l", "s">>, <<"d", "n", "s">>}
      [] t = TextPackets -> {<<"p", "a", "c", "k", "e", "t", "s">>}
      [] OTHER -> {}

\* the two sets a call of jaccard or canonical_overlap compares
ComparedA == IF procs[1].fn = "jaccard" THEN procs[1].a ELSE TagsByHand(procs[1].a)
ComparedB == IF procs[1].fn = "jaccard" THEN procs[1].b ELSE TagsByHand(procs[1].b)

\* C17: jaccard and canonical_overlap give None if and only if both sets are
\* empty; otherwise the quotient |A n B| / |A u B| (to the nearest 1/SCALE): 1
\* for equal sets, 0 for disjoint sets.
C17_JaccardDefined ==
    (procs[1].applied /\ procs[1].fn \in {"jaccard", "canonical_overlap"}) =>
        /\ procs[1].result.none <=> (ComparedA = {} /\ ComparedB = {})
        /\ ~procs[1].result.none =>
              LET num == Cardinality(ComparedA \cap ComparedB)
                  den == Cardinality(ComparedA \cup ComparedB)
                  v == procs[1].result.value
              IN  /\ 2 * (v * den - SCALE * num) <= den
                  /\ 2 * (SCALE * num - v * den) <= den
                  /\ ComparedA = ComparedB => v = SCALE
                  /\ ComparedA \cap ComparedB = {} => v = 0

\* jaccard of an empty set and a non-empty one: 0, not None
C17_Witness ==
    /\ procs[1].applied
    /\ procs[1].fn = "jaccard"
    /\ procs[1].a = {}
    /\ procs[1].b # {}
    /\ procs[1].result = Some(0)

\* C18 as stated: canonical_overlap("entropy tls flow", "entropy http flow")
\* is 2/3.
C18_OverlapTwoThirds ==
    (procs[1].applied /\ procs[1].fn = "canonical_overlap"
        /\ procs[1].a = TextTlsFlow /\ procs[1].b = TextHttpFlow) =>
        procs[1].result = Some((2 * 2 * SCALE + 3) \div (2 * 3))

\* C18: canonical_overlap("entropy tls flow", "entropy http flow") is 1/3:
\* "flow" is not in the vocabulary, the filtered sets are {entropy, tls} and
\* {entropy, http}, the intersection is {entropy}.
C18_OverlapOneThird ==
    (procs[1].applied /\ procs[1].fn = "canonical_overlap"
        /\ procs[1].a = TextTlsFlow /\ procs[1].b = TextHttpFlow) =>
        /\ procs[1].result = Some((2 * SCALE + 3) \div (2 * 3))
        /\ to_tags(procs[1].a) \cap to_tags(procs[1].b) = {<<"e", "n", "t", "r", "o", "p", "y">>}
        /\ Cardinality(to_tags(procs[1].a) \cup to_tags(procs[1].b)) = 3

C18_Witness ==
    /\ procs[1].applied
    /\ procs[1].fn = "canonical_overlap"
    /\ procs[1].a = TextTlsFlow
    /\ procs[1].b = TextHttpFlow
    /\ ~procs[1].result.none

----------------------------------------------------------------------------
(* Properties of the metrics of a pass *)

\* the keys of the dict one_pass returns
RecordFields ==
    {"beta", "k", "tau", "alpha", "seed", "adversarial",
     "mu_planner", "mu_researcher", "mu_critic",
     "RoundsToApproval_baseline", "RoundsToApproval_influence",
     "AgreementRate_baseline", "AgreementRate_influence",
     "RevisionDepth_between_rounds",
     "PlannerResearcher_Canonical_baseline", "PlannerResearcher_Canonical_influence",
     "Planner_SelfAgreement", "Researcher_SelfAgreement",
     "planner_baseline", "researcher_baseline", "critic_baseline",
     "planner_influence", "researcher_influence", "critic_influence"}

Unparsable(t) == t.parse = "invalid"

\* C11: an unparsable agent output does not stop the pass: the answer is taken
\* like any other (no exception from it), and the metrics step returns a
\* record with every field, RoundsToApproval being None for a round whose
\* critic output is unparsable.
C11_UnparsableStillRecorded ==
    [][\A i \in DOMAIN procs :
        /\ (Suspended(procs[i]) /\ Len(procs'[i].replies) > Len(procs[i].replies))
                => procs'[i].pc # "raised"
        /\ procs[i].pc = "metrics" =>
              /\ procs'[i].pc = "returned"
              /\ procs'[i].out.set
              /\ DOMAIN procs'[i].out = RecordFields \cup {"set"}
              /\ Unparsable(procs[i].c1) => procs'[i].out.RoundsToApproval_baseline = None
              /\ Unparsable(procs[i].c2) => procs'[i].out.RoundsToApproval_influence = None
              /\ procs'[i].out.critic_baseline = procs[i].c1
              /\ procs'[i].out.critic_influence = procs[i].c2]_vars

\* a pass has returned its record with both critic outputs unparsable and an
\* unparsable planner output
C11_Witness ==
    /\ procs[1].pc = "returned"
    /\ procs[1].out.set
    /\ Unparsable(procs[1].out.critic_baseline)
    /\ Unparsable(procs[1].out.critic_influence)
    /\ Unparsable(procs[1].out.planner_baseline)
    /\ procs[1].out.RoundsToApproval_baseline = None

\* the features of each text the service may send, read off by hand
FeaturesByHand(t) ==
    CASE t = TxtPlan -> {<<"i", "a", "t">>, <<"r", "a", "t", "e">>}
      [] t = TxtFeatures -> {<<"i", "a", "t">>, <<"d", "n", "s">>}
      [] t = TxtFeaturesBlank -> {<<"d", "n", "s">>}
      [] OTHER -> {}

Round1Features(out) ==
    FeaturesByHand(out.planner_baseline) \cup FeaturesByHand(out.researcher_baseline)
Round2Features(out) ==
    FeaturesByHand(out.planner_influence) \cup FeaturesByHand(out.researcher_influence)

\* C19 as stated: RevisionDepth_between_rounds is the size of the symmetric
\* difference of the combined feature sets of round 1 and round 2.
C19_RevisionSymmetric ==
    procs[1].out.set =>
        procs[1].out.RevisionDepth_between_rounds =
            Cardinality((Round1Features(procs[1].out) \ Round2Features(procs[1].out))
                \cup (Round2Features(procs[1].out) \ Round1Features(procs[1].out)))

\* C19: RevisionDepth_between_rounds counts the features of the round-2
\* combined set that are not in the round-1 combined set: the features added
\* are counted, the features dropped are not.
C19_RevisionAdded ==
    procs[1].out.set =>
        LET S1 == Round1Features(procs[1].out)
            S2 == Round2Features(procs[1].out)
            revd == procs[1].out.RevisionDepth_between_rounds
        IN  /\ revd + Cardinality(S1 \cap S2) = Cardinality(S2)
            /\ S2 \subseteq S1 => revd = 0

\* a pass in which round 2 both adds a feature and drops one
C19_Witness ==
    /\ procs[1].out.set
    /\ Round2Features(procs[1].out) \ Round1Features(procs[1].out) # {}
    /\ Round1Features(procs[1].out) \ Round2Features(procs[1].out) # {}
    /\ procs[1].out.RevisionDepth_between_rounds = 1

\* the critic outputs that are a JSON object whose decision is APPROVE, in
\* any case and with blanks around it
Approving == {TxtApprove, TxtApproveLoose}

\* C20: RoundsToApproval_baseline and RoundsToApproval_influence are 1 or
\* None, never 0: 1 exactly when the critic output of the round is an object
\* whose decision is APPROVE (any case, trimmed), None for REVISE, for any
\* other value and for unparsable output.
C20_RoundsToApproval ==
    procs[1].out.set =>
        /\ procs[1].out.RoundsToApproval_baseline =
              (IF procs[1].out.critic_baseline \in Approving THEN Some(1) ELSE None)
        /\ procs[1].out.RoundsToApproval_influence =
              (IF procs[1].out.critic_influence \in Approving THEN Some(1) ELSE None)
        /\ procs[1].out.RoundsToApproval_baseline # Some(0)
        /\ procs[1].out.RoundsToApproval_influence # Some(0)

\* approved in round 1 by " approve ", not approved in round 2 by REVISE
C20_Witness ==
    /\ procs[1].out.set
    /\ procs[1].out.critic_baseline = TxtApproveLoose
    /\ procs[1].out.critic_influence = TxtRevise
    /\ procs[1].out.RoundsToApproval_baseline = Some(1)
    /\ procs[1].out.RoundsToApproval_influence = None

\* C21: extract_features_from_json gives the empty set for a text that is no
\* JSON, that is no object, or whose "features" is missing or not a list; for
\* a list it gives the normalised names, blank ones left out.
C21_ExtractTotal ==
    (procs[1].applied /\ procs[1].fn = "extract_features_from_json") =>
        /\ procs[1].a \in {TxtInvalid, TxtArray, TxtEmptyObject, TxtApprove,
                           TxtFeaturesString} => procs[1].result = {}
        /\ procs[1].a = TxtFeaturesBlank => procs[1].result = {<<"d", "n", "s">>}
        /\ procs[1].result = FeaturesByHand(procs[1].a)

\* "features" holds a string, not a list: the empty set
C21_Witness ==
    /\ procs[1].applied
    /\ procs[1].fn = "extract_features_from_json"
    /\ procs[1].a = TxtFeaturesString
    /\ procs[1].result = {}

----------------------------------------------------------------------------
(* Properties of the two rounds of a pass *)

\* the requests of a pass made with the prompt of that name
RequestsNamed(f, name) ==
    {j \in DOMAIN f.reqs : f.reqs[j].task.name = name}

\* C22 as stated: the round-2 planner prompt carries a constraint listing
\* the features extracted from the baseline researcher output, whatever that
\* output is, also when no feature is extracted from it.
C22_ConstraintAlways ==
    \A j \in RequestsNamed(procs[1], "planner_influenced") :
        /\ procs[1].reqs[j].task.constrained
        /\ procs[1].reqs[j].task.constraint = FeaturesByHand(procs[1].r1)

\* C22: if a feature is extracted from the baseline researcher output, the
\* round-2 planner prompt carries a constraint listing precisely the features
\* extracted; if none is, the prompt carries no constraint.
C22_ConstraintIfFeatures ==
    \A j \in RequestsNamed(procs[1], "planner_influenced") :
        /\ procs[1].reqs[j].task.constrained <=> FeaturesByHand(procs[1].r1) # {}
        /\ procs[1].reqs[j].task.constrained =>
              procs[1].reqs[j].task.constraint = FeaturesByHand(procs[1].r1)
        /\ \A n \in DOMAIN procs[1].reqs :
              procs[1].reqs[n].task.name # "planner_influenced" =>
                  ~procs[1].reqs[n].task.constrained

\* the constraint in a pass whose planner and researcher baselines differ
C22_Witness ==
    /\ procs[1].p1 = TxtPlan
    /\ procs[1].r1 = TxtFeatures
    /\ \E j \in RequestsNamed(procs[1], "planner_influenced") :
         /\ procs[1].reqs[j].task.constrained
         /\ procs[1].reqs[j].task.constraint = FeaturesByHand(TxtFeatures)

Round1Prompts == {"planner_baseline", "researcher_baseline", "critic_baseline"}
Round2Prompts == {"planner_influenced", "researcher_influenced", "critic_influenced"}

\* the trust each agent has after the feedback of a pass with beta = 0.3,
\* worked out by hand: the mean of 0.7 * 0.5 + 0.3 * score over its two peers
MuByHand(agent, adversarial) ==
    IF adversarial
    THEN (IF agent = "planner" THEN 4850      \* (0.38 + 0.59) / 2
          ELSE IF agent = "researcher" THEN 4925   \* (0.38 + 0.605) / 2
          ELSE 4700)                           \* (0.47 + 0.47) / 2
    ELSE (IF agent = "planner" THEN 6050      \* (0.62 + 0.59) / 2
          ELSE IF agent = "researcher" THEN 5825   \* (0.56 + 0.605) / 2
          ELSE 5825)                           \* (0.59 + 0.575) / 2

\* C23: the three round-1 requests are made at the base temperature and
\* without annotation; the three round-2 requests are made at
\* temperature_from_mu(mu, 0.7, alpha) for the calling agent's own mu after
\* the feedback, and carry the annotation with that mu, the mixing value and
\* that temperature.
C23_RoundsInfluence ==
    \A j \in DOMAIN procs[1].reqs :
        LET req == procs[1].reqs[j]
            m == MuByHand(req.agent, procs[1].params[6])
        IN  /\ req.task.name \in Round1Prompts =>
                  /\ req.temperature = BASE_TEMP
                  /\ ~req.task.prefix.on
            /\ req.task.name \in Round2Prompts =>
                  /\ req.task.prefix.on
                  /\ req.task.prefix.mu = m
                  /\ req.task.prefix.mu = mu(procs[1].scores[req.agent])
                  /\ req.task.prefix.temp =
                        temperature_from_mu(m, T0_DEFAULT, procs[1].params[4])
                  /\ req.task.prefix.lam =
                        lambda_from_mu(m, procs[1].params[2],
                                       (procs[1].params[3] * SCALE) \div 10)
                  /\ req.temperature = req.task.prefix.temp
                  /\ req.temperature < T0_DEFAULT
            /\ (j <= 3) = (req.task.name \in Round1Prompts)
            /\ (j > 3) = (req.task.name \in Round2Prompts)

\* a pass that has made its six requests, the last at the critic's own
\* temperature
C23_Witness ==
    /\ Len(procs[1].reqs) = 6
    /\ procs[1].params[6]
    /\ procs[1].reqs[3].temperature = BASE_TEMP
    /\ procs[1].reqs[6].agent = "critic"
    /\ procs[1].reqs[6].task.prefix.mu = 4700
    /\ procs[1].reqs[6].temperature # procs[1].reqs[4].temperature

----------------------------------------------------------------------------
(* Properties of the feedback injection, on two passes side by side *)

Fed(f) == f.pc \in {"p2", "r2", "c2", "metrics", "returned"}

\* the score one_pass gives to `agent` in the name of `peer`, in hundredths,
\* read off the code by hand
ScoreByHand(agent, peer, adversarial) ==
    CASE agent = "planner" /\ peer = "critic" -> IF adversarial THEN 10 ELSE 90
      [] agent = "planner" /\ peer = "researcher" -> 80
      [] agent = "researcher" /\ peer = "critic" -> IF adversarial THEN 10 ELSE 70
      [] agent = "researcher" /\ peer = "planner" -> 85
      [] agent = "critic" /\ peer = "planner" -> IF adversarial THEN 40 ELSE 80
      [] agent = "critic" /\ peer = "researcher" -> IF adversarial THEN 40 ELSE 75

\* one update at rate beta (in tenths) from the prior 0.5, in units of 1/SCALE
OneUpdateByHand(beta, hundredths) == 5000 + 10 * beta * (hundredths - 50)

\* the temperature of the request a pass made with the prompt of that name
TemperatureOf(f, name) ==
    f.reqs[CHOOSE j \in DOMAIN f.reqs : f.reqs[j].task.name = name].temperature

\* C24: the feedback gives each agent exactly one update from each of its two
\* peers, at the beta of the pass, with the cooperative scores unless
\* adversarial is set; for the same beta in (0,1] every agent's mu is strictly
\* lower after the adversarial feedback than after the cooperative one (and,
\* alpha being the same and positive, its round-2 temperature is not lower);
\* for beta = 0 the two mu are equal.
C24_FeedbackInjection ==
    /\ \A i \in DOMAIN procs :
         Fed(procs[i]) =>
            \A a \in Agents :
                /\ DOMAIN procs[i].scores[a] = Agents \ {a}
                /\ \A peer \in Agents \ {a} :
                      procs[i].scores[a][peer] =
                          OneUpdateByHand(procs[i].params[1],
                                          ScoreByHand(a, peer, procs[i].params[6]))
    /\ (Fed(procs[1]) /\ Fed(procs[2]) /\ ~procs[1].params[6] /\ procs[2].params[6]) =>
          \A a \in Agents :
              /\ procs[1].params[1] > 0 =>
                    mu(procs[2].scores[a]) < mu(procs[1].scores[a])
              /\ procs[1].params[1] = 0 =>
                    mu(procs[2].scores[a]) = mu(procs[1].scores[a])
    /\ (procs[1].pc = "returned" /\ procs[2].pc = "returned"
            /\ ~procs[1].params[6] /\ procs[2].params[6]
            /\ procs[1].params[4] = procs[2].params[4]) =>
          \A name \in Round2Prompts :
              TemperatureOf(procs[2], name) >= TemperatureOf(procs[1], name)

\* a cooperative and an adversarial pass with beta = 0.6 and the same alpha
\* have returned, the adversarial critic having been asked at a higher
\* temperature
C24_Witness ==
    /\ procs[1].pc = "returned"
    /\ procs[2].pc = "returned"
    /\ ~procs[1].params[6]
    /\ procs[2].params[6]
    /\ procs[1].params[1] = 6
    /\ procs[1].params[4] = procs[2].params[4]
    /\ TemperatureOf(procs[2], "critic_influenced")
          > TemperatureOf(procs[1], "critic_influenced")
    /\ mu(procs[2].scores["critic"]) < mu(procs[1].scores["critic"])

\* the mu the annotation of the request made with the prompt of that name shows
AnnotatedMu(f, name) ==
    f.reqs[CHOOSE j \in DOMAIN f.reqs : f.reqs[j].task.name = name].task.prefix.mu

\* C27: in a pass every tracker is empty (mu = 0) until the feedback step,
\* only the feedback step changes a tracker, no call does; the mu_planner,
\* mu_researcher and mu_critic of the record are the mu of the influenced
\* calls, and two passes with the same beta and adversarial flag record the
\* same three mu, whatever the answers, k, tau, alpha and seed.
C27_TrustIsolated ==
    [][/\ \A i \in DOMAIN procs :
            /\ procs'[i].scores # procs[i].scores => procs[i].pc = "feedback"
            /\ procs'[i].pc \in {"p1", "r1", "c1", "feedback"} =>
                  \A a \in Agents :
                      procs'[i].scores[a] = <<>> /\ mu(procs'[i].scores[a]) = 0
            /\ procs'[i].out.set =>
                  /\ procs'[i].out.mu_planner = AnnotatedMu(procs'[i], "planner_influenced")
                  /\ procs'[i].out.mu_researcher =
                        AnnotatedMu(procs'[i], "researcher_influenced")
                  /\ procs'[i].out.mu_critic = AnnotatedMu(procs'[i], "critic_influenced")
       /\ (procs'[1].out.set /\ procs'[2].out.set
              /\ procs'[1].params[6] = procs'[2].params[6]) =>
             /\ procs'[1].out.mu_planner = procs'[2].out.mu_planner
             /\ procs'[1].out.mu_researcher = procs'[2].out.mu_researcher
             /\ procs'[1].out.mu_critic = procs'[2].out.mu_critic]_vars

\* two passes with the same beta > 0 and flag, other k, tau, alpha and seed,
\* and other answers, have recorded the same mu, which is not 0
C27_Witness ==
    /\ procs[1].out.set
    /\ procs[2].out.set
    /\ procs[1].params[6] = procs[2].params[6]
    /\ procs[1].params[1] = 3
    /\ procs[1].params[2] # procs[2].params[2]
    /\ procs[1].out.planner_baseline # procs[2].out.planner_baseline
    /\ procs[1].out.mu_planner = procs[2].out.mu_planner
    /\ procs[1].out.mu_planner > 0

----------------------------------------------------------------------------
(* Properties of the sweep: order, duplicates, termination *)

\* the rows this run has appended to the store, oldest first
AppendedNow == SubSeq(written, writtenAtStart + 1, Len(written))

IsSaved(f) == f.rpc = "saved"

\* the tuples of the passes of this run that ended with a row, in start order
SavedInStartOrder ==
    LET saved == SelectSeq(procs, IsSaved)
    IN  [j \in 1..Len(saved) |-> saved[j].params]

\* C25: one pass at a time.  While a run is under way at most one pass has
\* started and not ended, whatever MAX_CONCURRENCY is, and main waits exactly
\* while there is one; the passes started are the first idx tasks of the
\* to-do list, in its order; and the rows this run has appended are those of
\* its passes that ended without error, in the order the passes were started.
C25_OneAtATime ==
    Running =>
        /\ Cardinality(InFlight) <= 1
        /\ (mainpc = "await") = (InFlight # {})
        /\ InFlight \subseteq {Len(procs)}
        /\ Len(procs) = idx
        /\ idx <= Len(todo)
        /\ \A i \in DOMAIN procs : procs[i].params = todo[i]
        /\ AppendedNow = SavedInStartOrder

\* with more than one permit left, the third pass of a run is in flight after
\* two passes that ended, one of them with its row appended
C25_Witness ==
    /\ sem >= 1
    /\ Len(procs) = 3
    /\ procs[3].rpc = "pass"
    /\ Len(AppendedNow) >= 1
    /\ \E i \in 1..2 : procs[i].rpc = "saved"

\* data row j of the store as read_done_keys reads it
StoreKey(j) == RowKey(csv[1], csv[j + 1])

\* the store has a row for every tuple of the grid
GridStored ==
    \A p \in Range(tasks) :
        \E j \in 1..(Len(csv) - 1) : StoreKey(j).ok /\ StoreKey(j).key = p

\* C26: no duplicate work.  From an empty store, after any runs, however they
\* were cut short, every data row of the store reads back as the tuple of the
\* pass that wrote it and no two data rows are of the same tuple; and a run
\* that read a store holding every tuple of the grid has an empty to-do list,
\* starts no pass and appends nothing.
C26_NoDuplicateWork ==
    /\ Len(csv) = (IF csv = <<>> THEN 0 ELSE 1 + Len(written))
    /\ \A j \in DOMAIN written :
         LET read == StoreKey(j)
         IN  read.ok /\ read.key = written[j]
    /\ \A i, j \in DOMAIN written : (written[i] = written[j]) => (i = j)
    /\ (Running /\ Range(tasks) \subseteq StoredAtStart)
         => /\ todo = <<>>
            /\ procs = <<>>
            /\ idx = 0
            /\ Len(written) = writtenAtStart
            /\ Len(csv) = 1 + writtenAtStart

\* a second run has ended on a store that held every tuple of the grid when
\* the run started, some written by each ordering of the first run
C26_Witness ==
    /\ run = 2
    /\ mainpc = "done"
    /\ GridStored
    /\ Range(tasks) \subseteq StoredAtStart
    /\ Len(written) = Len(tasks)

\* a second run appends the rows the first run, cut short, had left out
C26_ResumedWitness ==
    /\ run = 2
    /\ mainpc = "done"
    /\ GridStored
    /\ writtenAtStart >= 1
    /\ writtenAtStart < Len(written)

\* the final state of a run: main has left its loop
Final == mainpc = "done"

\* C28: termination without leaked permits.  Every run comes to its final
\* state, so that no state is reachable in which the run is not over and no
\* step can be taken; in the final state every task of the to-do list has
\* been dispatched unless the budget cut the run off, no pass is in flight,
\* every permit is back and the lock is free; and a run_one that ends, with
\* its row written, with its pass failed or with the write failed, gives back
\* its permit, leaves the lock free and lets main go on.
C28_Termination ==
    /\ [] (Final => /\ idx = Len(todo) \/ budgetStop
                    /\ Len(procs) = idx
                    /\ InFlight = {}
                    /\ sem = MAX_CONCURRENCY
                    /\ ~writer_lock)
    /\ [][ \A i \in InFlight :
             (i \in DOMAIN procs' /\ procs'[i].rpc \notin {"pass", "locked"})
             => /\ sem' = sem + 1
                /\ ~writer_lock'
                /\ mainpc' = "loop" ]_vars
    /\ <> Final

\* a run has ended with all three ways out of run_one taken: a row written,
\* and two failures of which one left the tuple's pass complete
C28_Witness ==
    /\ Final
    /\ ~budgetStop
    /\ sem = MAX_CONCURRENCY
    /\ \E i \in DOMAIN procs : procs[i].rpc = "saved"
    /\ Cardinality({i \in DOMAIN procs : procs[i].rpc = "error"}) >= 2

====
